---- MODULE Spec2Model ----
(***************************************************************************)
(* A model of libsigrok's session core (src/session.c): the event-source   *)
(* registry (session->sources and the flat session->pollfds array kept in  *)
(* lockstep with it) and the event loop sr_session_run /                   *)
(* sr_session_iteration that polls the descriptors and dispatches the      *)
(* sources' callbacks, which may themselves add and remove sources.        *)
(***************************************************************************)
EXTENDS Integers, Sequences, FiniteSets, TLC

(***************************************************************************)
(* Bounds of the model.                                                    *)
(***************************************************************************)
\* largest number of entries the registry is let grow to
MaxSources == 2
\* number of registry entries created over a whole behaviour (entry ids)
MaxIds == 3
\* the monotonic clock runs from 0 to MaxTicks milliseconds
MaxTicks == 1
\* number of sr_session_stop calls made over a whole behaviour
MaxStops == 2
\* number of sr_session_send calls made over a whole behaviour
MaxSends == 3
\* largest number of transform modules of a session
MaxTransforms == 2
\* number of subscribers registered over a whole behaviour
MaxSubscribers == 2

(***************************************************************************)
(* Program constants.                                                      *)
(***************************************************************************)
\* INT64_MAX, the "no deadline" value of source.due.  TLC's integers are 32
\* bits wide, so the largest of them stands for it; every time of the model
\* is far below it and no arithmetic is ever done on it.
INT64_MAX == 2147483647
\* the libusb context pointer, the poll_object of the USB source
LibusbCtx == 200

\* the clock moves in steps of one millisecond (1000 microseconds)
MaxTime == MaxTicks * 1000

\* the time values the clock takes
Times == {t * 1000 : t \in 0..MaxTicks}

(***************************************************************************)
(* The inputs the entry points are called with.                            *)
(***************************************************************************)
\* A pollfds argument: a pointer that is NULL or points to an array of GPollFD
\* (the caller's revents are taken to be cleared, as sr_session_source_add
\* clears them).
NullFds == [null |-> TRUE, arr |-> <<>>]
FdArray(fds) == [null |-> FALSE,
                 arr |-> [j \in 1..Len(fds) |-> [fd |-> fds[j], revents |-> 0]]]
\* fd arguments of sr_session_source_add: -1 is the timer-only key
RawFds == {-1, 3}
\* pollfd arguments of sr_session_source_add_pollfd: NULL, or the address of
\* a caller-owned GPollFD and the fd stored in it
PollfdArgs == {[addr |-> 0, fd |-> 0], [addr |-> 100, fd |-> 4]}
\* the descriptors libusb asks to have polled
UsbFds == <<5, 6>>
\* a driver's own handle and descriptors, given to the internal add directly
DriverKeys == {300}
DriverFds == <<7>>
\* the devices, and whether each has a driver and the driver a dev_open:
\* dev1 and dev2 are real devices, virt is a virtual device (no driver) and
\* noopen a real device whose driver has no dev_open
AllDevices == {"dev1", "dev2", "virt", "noopen"}
Devices == {"dev1"}
HasDriver(d) == d # "virt"
HasDevOpen(d) == d \notin {"virt", "noopen"}
\* whether the driver of a device has a dev_acquisition_stop
HasAcqStop(d) == d = "dev1"
\* timeout arguments, in milliseconds
Timeouts == {-1, 0, 1}
PollfdTimeouts == {0}
UsbTimeouts == {1}
DriverTimeouts == {-1, 0}
\* the revents values poll may store in one descriptor: nothing, or G_IO_IN
Revents == {0, 1}

VARIABLES
    sources,        \* session->sources: sequence of struct source
    pollfds,        \* session->pollfds: sequence of GPollFD
    usb_source_present, \* session->ctx->usb_source_present
    abort_session,  \* session->abort_session
    running,        \* session->running
    devs,           \* session->devs
    sdi_session,    \* sdi->session of every device
    now,            \* g_get_monotonic_time()
    pc,             \* where the thread that owns the session is
    loop,           \* the locals of sr_session_iteration
    call,           \* the callback invocation in progress / last made
    fired,          \* ids of the entries whose callback ran in this iteration
    gone,           \* ids of the entries whose callback returned FALSE
    next_id,        \* the id the next registry entry gets
    result,         \* the return code of the API call the last step made
    stop_mutex,     \* session->stop_mutex: free, or the thread that holds it
    other_pc,       \* where the second thread is in sr_session_stop
    stop_calls,     \* number of sr_session_stop calls made so far
    stop_syncs,     \* number of sr_session_stop_sync executions so far
    sync,           \* the locals of sr_session_stop_sync, and its caller
    acq_stops,      \* dev_acquisition_stop invocations, per device
    started,        \* sr_session_start succeeded, no stop_sync completed since
    bare,           \* accesses to the two flags made without the stop mutex
    checks,         \* sr_session_check_aborted calls of this iteration
    waited,         \* g_poll calls begun with the flag set since the last
                    \* sr_session_stop_sync (2 stands for 2 or more)
    ran,            \* the sr_session_run call in progress or just returned
    transforms,     \* session->transforms: sequence of transform modules
    datafeed_callbacks, \* session->datafeed_callbacks: sequence of subscribers
    seen,           \* the packets each subscriber was called with, in order
    sends,          \* the sr_session_send calls made: arguments and outcome
    devs2,          \* the devs of a second session, session2
    drv_log,        \* the call of the roster API the last step made, if it
                    \* made one and the specification enters it: its
                    \* arguments, the calls out of the session it made, in
                    \* order, and its return code
    pkt,            \* a packet a driver made, and the reference counts of
                    \* the GVariants when it was made
    heap,           \* the reference counts of the GVariants, and the blocks
                    \* allocated since the packet was made and not freed
    copied,         \* the sr_packet_copy of the packet: where the caller
                    \* is, the return code and the copy
    reaped          \* ids of the entries the dispatch loop removed after
                    \* the callback that has just returned FALSE

\* no packet was made; nothing on the heap; no copy asked for
NoPkt == [packet |-> [type |-> "none", payload |-> [kind |-> "NULL"]],
          refs |-> [v \in {} |-> 0]]
NoHeap == [refs |-> [v \in {} |-> 0], blocks |-> {}, wild |-> FALSE]
NoCopy == [pc |-> "none", ret |-> "none",
           packet |-> [type |-> "none", payload |-> [kind |-> "NULL"]]]

\* the last step made no call of the roster API
NoLog == [op |-> "none", session |-> "NULL", dev |-> "NULL", run |-> FALSE,
          calls |-> <<>>, ret |-> "none"]

\* a packet, its copy, and the heap
packet_vars == <<pkt, heap, copied>>

\* the state of the stop channel and what is recorded about it
stop_vars == <<stop_mutex, other_pc, stop_calls, stop_syncs, sync, acq_stops,
               started, bare, checks>>

\* the datafeed bus and what is recorded about it
feed_vars == <<transforms, datafeed_callbacks, seen, sends>>

vars == <<sources, pollfds, usb_source_present, abort_session, running, devs,
          sdi_session, now, pc, loop, call, fired, gone, next_id, result,
          stop_vars, waited, ran, feed_vars, devs2, drv_log, packet_vars,
          reaped>>

(***************************************************************************)
(* Helpers.                                                                *)
(***************************************************************************)
\* bitwise OR of two event masks of three bits
RECURSIVE BitOr(_, _)
BitOr(a, b) ==
    IF a = 0 THEN b
    ELSE IF b = 0 THEN a
    ELSE (IF a % 2 = 1 \/ b % 2 = 1 THEN 1 ELSE 0) + 2 * BitOr(a \div 2, b \div 2)

\* the sum of num_fds over the first n entries of a registry
RECURSIVE SumFds(_, _)
SumFds(srcs, n) ==
    IF n = 0 THEN 0 ELSE SumFds(srcs, n - 1) + srcs[n].num_fds

\* a sequence without the elements at positions from..from+cnt-1 (1-based)
RemoveRange(s, from, cnt) ==
    [j \in 1..(Len(s) - cnt) |-> IF j < from THEN s[j] ELSE s[j + cnt]]

(***************************************************************************)
(* The source registry.                                                    *)
(***************************************************************************)
\* the poll_objects in a registry
KeysOf(srcs) == {srcs[j].poll_object : j \in 1..Len(srcs)}

\* sr_session_source_add_internal appending a single descriptor where it
\* should append num_fds of them
source_add_internal_one_fd(srcs, pfds, arg, num_fds, timeout, cb_null, poll_object, id, t) ==
    IF cb_null THEN
        [ret |-> "SR_ERR_ARG", sources |-> srcs, pollfds |-> pfds]
    ELSE IF arg.null /\ num_fds # 0 THEN
        [ret |-> "SR_ERR_ARG", sources |-> srcs, pollfds |-> pfds]
    ELSE IF \E i \in 1..Len(srcs) : srcs[i].poll_object = poll_object THEN
        [ret |-> "SR_ERR", sources |-> srcs, pollfds |-> pfds]
    ELSE
        [ret |-> "SR_OK",
         sources |-> Append(srcs,
             [poll_object |-> poll_object, num_fds |-> num_fds,
              triggered |-> FALSE,
              timeout |-> IF timeout >= 0 THEN 1000 * timeout ELSE -1,
              due |-> IF timeout >= 0 THEN t + 1000 * timeout ELSE INT64_MAX,
              id |-> id]),
         pollfds |-> pfds \o [k \in 1..(IF num_fds > 0 THEN 1 ELSE 0) |->
                        [fd |-> arg.arr[k].fd, revents |-> arg.arr[k].revents,
                         owner |-> id]]]

\* sr_session_source_add_internal without the search for the poll_object
source_add_internal_no_search(srcs, pfds, arg, num_fds, timeout, cb_null, poll_object, id, t) ==
    IF cb_null THEN
        [ret |-> "SR_ERR_ARG", sources |-> srcs, pollfds |-> pfds]
    ELSE IF arg.null /\ num_fds # 0 THEN
        [ret |-> "SR_ERR_ARG", sources |-> srcs, pollfds |-> pfds]
    ELSE
        [ret |-> "SR_OK",
         sources |-> Append(srcs,
             [poll_object |-> poll_object, num_fds |-> num_fds,
              triggered |-> FALSE,
              timeout |-> IF timeout >= 0 THEN 1000 * timeout ELSE -1,
              due |-> IF timeout >= 0 THEN t + 1000 * timeout ELSE INT64_MAX,
              id |-> id]),
         pollfds |-> pfds \o [k \in 1..num_fds |->
                        [fd |-> arg.arr[k].fd, revents |-> arg.arr[k].revents,
                         owner |-> id]]]

\* sr_session_source_add_internal on the registry (srcs, pfds): cb_null says
\* that cb is NULL, id is the identity of the new entry and t the clock.
source_add_internal(srcs, pfds, arg, num_fds, timeout, cb_null, poll_object, id, t) ==
    IF cb_null THEN
        [ret |-> "SR_ERR_ARG", sources |-> srcs, pollfds |-> pfds]
    ELSE IF arg.null /\ num_fds # 0 THEN
        [ret |-> "SR_ERR_ARG", sources |-> srcs, pollfds |-> pfds]
    ELSE IF \E i \in 1..Len(srcs) : srcs[i].poll_object = poll_object THEN
        [ret |-> "SR_ERR", sources |-> srcs, pollfds |-> pfds]
    ELSE
        LET src == [poll_object |-> poll_object,
                    num_fds |-> num_fds,
                    triggered |-> FALSE,
                    timeout |-> IF timeout >= 0 THEN 1000 * timeout ELSE -1,
                    due |-> IF timeout >= 0 THEN t + 1000 * timeout
                            ELSE INT64_MAX,
                    id |-> id]
        IN [ret |-> "SR_OK",
            sources |-> Append(srcs, src),
            pollfds |-> pfds \o [k \in 1..num_fds |->
                           [fd |-> arg.arr[k].fd, revents |-> arg.arr[k].revents,
                            owner |-> id]]]

\* the scan of sr_session_source_remove_internal with fd_index left at 0
RECURSIVE remove_scan_no_offset(_, _, _, _, _)
remove_scan_no_offset(srcs, pfds, poll_object, i, fd_index) ==
    IF i >= Len(srcs) THEN
        [ret |-> "SR_ERR_BUG", sources |-> srcs, pollfds |-> pfds]
    ELSE IF srcs[i + 1].poll_object = poll_object THEN
        [ret |-> "SR_OK",
         sources |-> RemoveRange(srcs, i + 1, 1),
         pollfds |-> IF srcs[i + 1].num_fds > 0
                     THEN RemoveRange(pfds, fd_index + 1, srcs[i + 1].num_fds)
                     ELSE pfds]
    ELSE remove_scan_no_offset(srcs, pfds, poll_object, i + 1, fd_index)

\* The scan of sr_session_source_remove_internal from entry i (0-based) with
\* fd_index descriptors before it.
RECURSIVE remove_scan(_, _, _, _, _)
remove_scan(srcs, pfds, poll_object, i, fd_index) ==
    IF i >= Len(srcs) THEN
        [ret |-> "SR_ERR_BUG", sources |-> srcs, pollfds |-> pfds]
    ELSE IF srcs[i + 1].poll_object = poll_object THEN
        [ret |-> "SR_OK",
         sources |-> RemoveRange(srcs, i + 1, 1),
         pollfds |-> IF srcs[i + 1].num_fds > 0
                     THEN RemoveRange(pfds, fd_index + 1, srcs[i + 1].num_fds)
                     ELSE pfds]
    ELSE remove_scan(srcs, pfds, poll_object, i + 1,
                     fd_index + srcs[i + 1].num_fds)

source_remove_internal(srcs, pfds, poll_object) ==
    remove_scan(srcs, pfds, poll_object, 0, 0)

\* where the owning thread may call the session API: outside the loop, and
\* inside a callback
CanCall == pc \in {"idle", "cb"}

\* the registry and the entry counter after an add that returned r
Added(r) ==
    /\ r.ret = "SR_OK" => Len(sources) < MaxSources /\ next_id <= MaxIds
    /\ sources' = r.sources
    /\ pollfds' = r.pollfds
    /\ next_id' = IF r.ret = "SR_OK" THEN next_id + 1 ELSE next_id

\* A callback invocation: what the loop passes (fd, revents), the entry it
\* belongs to and the value of g_poll (ret), and what the entry looked like at
\* the call: its num_fds and timeout, its triggered flag, whether it had been
\* invoked in this iteration before (again), and the fd and the OR of the
\* revents of the descriptors it owns (own_fd, own_revents).
NoCall == [id |-> 0, poll_object |-> 0, fd |-> 0, revents |-> 0, ret |-> 0,
           num_fds |-> 0, own_fd |-> 0, own_revents |-> 0,
           timeout |-> 0, triggered |-> FALSE, again |-> FALSE,
           due |-> 0, due_set |-> 0]

NoLoop == [i |-> 0, fd_index |-> 0, ret |-> 0, stop_time |-> 0,
           usb_due |-> INT64_MAX, triggered |-> FALSE, stopped |-> FALSE]

\* A call of sr_session_run: what it returned ("none" while it runs),
\* whether it called g_poll, whether an iteration of it reported a failure,
\* and whether the call found abort_session set when it began and no
\* sr_session_stop_sync has completed in it since (stale).  NoRan: no call
\* is in progress or has just returned.
NoRan == [ret |-> "none", polled |-> FALSE, failed |-> FALSE,
          stale |-> FALSE]

\* a session call made outside the loop ends the record of the last run
Called == ran' = IF pc = "idle" THEN NoRan ELSE ran

\* sr_session_stop_sync is not running
NoSync == [l |-> 0, from |-> "none"]

Init ==
    /\ sources = <<>>
    /\ pollfds = <<>>
    /\ usb_source_present = FALSE
    /\ abort_session = FALSE
    /\ running = FALSE
    /\ devs = <<>>
    /\ sdi_session = [d \in AllDevices |-> "NULL"]
    /\ now = 0
    /\ pc = "idle"
    /\ loop = NoLoop
    /\ call = NoCall
    /\ fired = {}
    /\ gone = {}
    /\ next_id = 1
    /\ result = "none"
    /\ stop_mutex = "free"
    /\ other_pc = "idle"
    /\ stop_calls = 0
    /\ stop_syncs = 0
    /\ sync = NoSync
    /\ acq_stops = [d \in AllDevices |-> 0]
    /\ started = FALSE
    /\ bare = {}
    /\ checks = 0
    /\ waited = 0
    /\ ran = NoRan
    /\ transforms = <<>>
    /\ datafeed_callbacks = <<>>
    /\ seen = <<>>
    /\ sends = <<>>
    /\ devs2 = <<>>
    /\ drv_log = NoLog
    /\ pkt = NoPkt
    /\ heap = NoHeap
    /\ copied = NoCopy
    /\ reaped = {}

\* what the registry operations leave alone
RegistryFrame ==
    /\ Called
    /\ UNCHANGED <<abort_session, running, devs, sdi_session, now, pc, loop,
                   call, fired, gone, stop_vars, waited, feed_vars, devs2, packet_vars>>
    /\ reaped' = {}
    /\ drv_log' = NoLog

\* sr_session_source_add: a raw descriptor, or fd < 0 for a timer
sr_session_source_add(fd, timeout, cb_null) ==
    /\ CanCall
    /\ IF fd < 0 /\ timeout < 0 THEN
           /\ result' = "SR_ERR_ARG"
           /\ UNCHANGED <<sources, pollfds, next_id>>
       ELSE
           LET r == source_add_internal(sources, pollfds, FdArray(<<fd>>),
                        IF fd < 0 THEN 0 ELSE 1, timeout, cb_null, fd,
                        next_id, now)
           IN Added(r) /\ result' = r.ret
    /\ UNCHANGED usb_source_present
    /\ RegistryFrame

\* sr_session_source_add_pollfd: a caller-owned GPollFD, keyed by its address
sr_session_source_add_pollfd(p, timeout, cb_null) ==
    /\ CanCall
    /\ IF p.addr = 0 THEN
           /\ result' = "SR_ERR_ARG"
           /\ UNCHANGED <<sources, pollfds, next_id>>
       ELSE
           LET r == source_add_internal(sources, pollfds, FdArray(<<p.fd>>),
                        1, timeout, cb_null, p.addr, next_id, now)
           IN Added(r) /\ result' = r.ret
    /\ UNCHANGED usb_source_present
    /\ RegistryFrame

\* sr_session_source_add_internal called by a driver with its own handle
sr_session_source_add_internal(arg, num_fds, timeout, cb_null, poll_object) ==
    /\ CanCall
    /\ LET r == source_add_internal(sources, pollfds, arg, num_fds, timeout,
                    cb_null, poll_object, next_id, now)
       IN Added(r) /\ result' = r.ret
    /\ UNCHANGED usb_source_present
    /\ RegistryFrame

\* usb_source_add: installs the USB source under the libusb context
usb_source_add(timeout) ==
    /\ CanCall
    /\ IF usb_source_present THEN
           /\ result' = "SR_ERR"
           /\ UNCHANGED <<sources, pollfds, next_id, usb_source_present>>
       ELSE
           LET r == source_add_internal(sources, pollfds, FdArray(UsbFds),
                        Len(UsbFds), timeout, FALSE, LibusbCtx, next_id, now)
           IN /\ Added(r)
              /\ result' = r.ret
              /\ usb_source_present' = (r.ret = "SR_OK")
    /\ RegistryFrame

\* sr_session_source_remove_internal, and through it sr_session_source_remove,
\* ..._remove_pollfd and ..._remove_channel
sr_session_source_remove_internal(poll_object) ==
    /\ CanCall
    /\ LET r == source_remove_internal(sources, pollfds, poll_object)
       IN /\ sources' = r.sources
          /\ pollfds' = r.pollfds
          /\ result' = r.ret
          /\ usb_source_present' =
                 IF r.ret = "SR_OK" /\ poll_object = LibusbCtx
                 THEN FALSE ELSE usb_source_present
    /\ UNCHANGED next_id
    /\ RegistryFrame

\* every poll_object the model adds or removes
PollObjects == RawFds \cup {100, LibusbCtx} \cup DriverKeys

(***************************************************************************)
(* The device roster (as far as the loop needs it).                        *)
(***************************************************************************)
\* the sessions
Sessions == {"session", "session2"}

\* sr_session_dev_add without the check of sdi->session
dev_add_bound(roster, back, s, d, run, commit_ok, start_ok) ==
    IF ~HasDriver(d) \/ HasDevOpen(d) THEN
        [ret |-> "SR_OK", devs |-> Append(roster, d),
         session |-> [back EXCEPT ![d] = s], calls |-> <<>>]
    ELSE
        [ret |-> "SR_ERR_BUG", devs |-> roster, session |-> back,
         calls |-> <<>>]

\* a call out of the session, for a device, and whether it returned SR_OK
Commit(d, ok) == [op |-> "sr_config_commit", dev |-> d, ok |-> ok]
Start(d, ok) == [op |-> "dev_acquisition_start", dev |-> d, ok |-> ok]

\* the tail of sr_session_dev_add for a real device, after it is enrolled,
\* were dev_acquisition_start called whatever sr_config_commit returned
dev_add_running_on(d, run, commit_ok, start_ok) ==
    IF ~run THEN [ret |-> "SR_OK", calls |-> <<>>]
    ELSE [ret |-> IF commit_ok /\ start_ok THEN "SR_OK" ELSE "SR_ERR",
          calls |-> <<Commit(d, commit_ok), Start(d, start_ok)>>]

\* the tail of sr_session_dev_add for a real device, after it is enrolled:
\* the calls made for a running session and the return code
dev_add_running(d, run, commit_ok, start_ok) ==
    IF ~run THEN [ret |-> "SR_OK", calls |-> <<>>]
    ELSE IF ~commit_ok THEN [ret |-> "SR_ERR",
                             calls |-> <<Commit(d, FALSE)>>]
    ELSE IF ~start_ok THEN [ret |-> "SR_ERR",
                            calls |-> <<Commit(d, TRUE), Start(d, FALSE)>>]
    ELSE [ret |-> "SR_OK", calls |-> <<Commit(d, TRUE), Start(d, TRUE)>>]

\* sr_session_dev_add(s, d) on the roster of session s and the sdi->session
\* of the devices: the return code, the roster and the back-references it
\* leaves.  run is s->running; sr_config_commit and the driver's
\* dev_acquisition_start are outside the session and may fail.
dev_add(roster, back, s, d, run, commit_ok, start_ok) ==
    IF back[d] # "NULL" THEN
        [ret |-> "SR_ERR_ARG", devs |-> roster, session |-> back,
         calls |-> <<>>]
    ELSE IF ~HasDriver(d) THEN
        [ret |-> "SR_OK", devs |-> Append(roster, d),
         session |-> [back EXCEPT ![d] = s], calls |-> <<>>]
    ELSE IF ~HasDevOpen(d) THEN
        [ret |-> "SR_ERR_BUG", devs |-> roster, session |-> back,
         calls |-> <<>>]
    ELSE
        LET t == dev_add_running(d, run, commit_ok, start_ok)
        IN [ret |-> t.ret, devs |-> Append(roster, d),
            session |-> [back EXCEPT ![d] = s], calls |-> t.calls]

\* the loop of sr_session_dev_remove_all from list element l on
RECURSIVE clear_sessions(_, _, _)
clear_sessions(roster, l, back) ==
    IF l > Len(roster) THEN back
    ELSE clear_sessions(roster, l + 1, [back EXCEPT ![roster[l]] = "NULL"])

\* sr_session_dev_remove_all on a roster
dev_remove_all(roster, back) ==
    [ret |-> "SR_OK", devs |-> <<>>,
     session |-> clear_sessions(roster, 1, back)]

\* sr_session_dev_add on the session; the call is entered in drv_log when
\* log is TRUE
sr_session_dev_add(d, commit_ok, start_ok, log) ==
    /\ CanCall
    /\ LET r == dev_add(devs, sdi_session, "session", d, running,
                        commit_ok, start_ok)
       IN /\ devs' = r.devs
          /\ sdi_session' = r.session
          /\ result' = r.ret
          /\ drv_log' = IF log
                         THEN [op |-> "dev_add", session |-> "session",
                               dev |-> d, run |-> running,
                               calls |-> r.calls, ret |-> r.ret]
                         ELSE NoLog
    \* session->running is read, without the stop mutex, for a real device
    \* that is enrolled
    /\ bare' = IF sdi_session[d] = "NULL" /\ HasDriver(d) /\ HasDevOpen(d)
               THEN bare \cup {"dev_add reads running"} ELSE bare
    /\ UNCHANGED <<sources, pollfds, usb_source_present, abort_session,
                   running, now, pc, loop, call, fired, gone, next_id,
                   stop_mutex, other_pc, stop_calls, stop_syncs, sync,
                   acq_stops, started, checks>>
    /\ UNCHANGED waited
    /\ Called
    /\ UNCHANGED <<feed_vars, devs2, packet_vars>>
    /\ reaped' = {}

\* sr_session_dev_add on session2, which is never run
session2_dev_add(d) ==
    /\ pc = "idle"
    /\ LET r == dev_add(devs2, sdi_session, "session2", d, FALSE, TRUE, TRUE)
       IN /\ devs2' = r.devs
          /\ sdi_session' = r.session
          /\ result' = r.ret
          /\ drv_log' = [op |-> "dev_add", session |-> "session2",
                          dev |-> d, run |-> FALSE, calls |-> r.calls,
                          ret |-> r.ret]
    /\ Called
    /\ UNCHANGED <<sources, pollfds, usb_source_present, abort_session,
                   running, devs, now, pc, loop, call, fired, gone, next_id,
                   stop_vars, waited, feed_vars, packet_vars>>
    /\ reaped' = {}

\* sr_session_dev_remove_all on session s
sr_session_dev_remove_all(s) ==
    /\ pc = "idle"
    /\ LET r == dev_remove_all(IF s = "session" THEN devs ELSE devs2,
                               sdi_session)
       IN /\ devs' = IF s = "session" THEN r.devs ELSE devs
          /\ devs2' = IF s = "session2" THEN r.devs ELSE devs2
          /\ sdi_session' = r.session
          /\ result' = r.ret
          /\ drv_log' = [op |-> "dev_remove_all", session |-> s,
                          dev |-> "NULL", run |-> FALSE, calls |-> <<>>,
                          ret |-> r.ret]
    /\ Called
    /\ UNCHANGED <<sources, pollfds, usb_source_present, abort_session,
                   running, now, pc, loop, call, fired, gone, next_id,
                   stop_vars, waited, feed_vars, packet_vars>>
    /\ reaped' = {}

(***************************************************************************)
(* The stop request.                                                       *)
(***************************************************************************)
\* sr_session_stop called by the thread that runs the loop, from a source
\* callback: the stop mutex is not held by this thread there, so the call
\* locks it (waiting for the second thread to release it), sets the flag and
\* unlocks
sr_session_stop ==
    /\ pc = "cb"
    /\ stop_mutex = "free"
    /\ stop_calls < MaxStops
    /\ abort_session' = TRUE
    /\ stop_calls' = stop_calls + 1
    /\ result' = "SR_OK"
    /\ UNCHANGED <<sources, pollfds, usb_source_present, running, devs,
                   sdi_session, now, pc, loop, call, fired, gone, next_id,
                   stop_mutex, other_pc, stop_syncs, sync, acq_stops,
                   started, bare, checks>>
    /\ UNCHANGED waited
    /\ UNCHANGED ran
    /\ UNCHANGED <<feed_vars, devs2, packet_vars>>
    /\ reaped' = {}
    /\ drv_log' = NoLog

\* sr_session_stop called by a second thread: g_mutex_lock ...
stop_thread_lock ==
    /\ pc # "aborted"
    /\ other_pc = "idle"
    /\ stop_mutex = "free"
    /\ stop_calls < MaxStops
    /\ stop_mutex' = "other"
    /\ other_pc' = "locked"
    /\ stop_calls' = stop_calls + 1
    /\ UNCHANGED <<sources, pollfds, usb_source_present, abort_session,
                   running, devs, sdi_session, now, pc, loop, call, fired,
                   gone, next_id, result, stop_syncs, sync, acq_stops,
                   started, bare, checks>>
    /\ UNCHANGED waited
    /\ Called
    /\ UNCHANGED <<feed_vars, devs2, packet_vars>>
    /\ reaped' = {}
    /\ drv_log' = NoLog

\* ... the flag set, and g_mutex_unlock
stop_thread_set ==
    /\ pc # "aborted"
    /\ other_pc = "locked"
    /\ abort_session' = TRUE
    /\ stop_mutex' = "free"
    /\ other_pc' = "idle"
    /\ UNCHANGED <<sources, pollfds, usb_source_present, running, devs,
                   sdi_session, now, pc, loop, call, fired, gone, next_id,
                   result, stop_calls, stop_syncs, sync, acq_stops, started,
                   bare, checks>>
    /\ UNCHANGED waited
    /\ Called
    /\ UNCHANGED <<feed_vars, devs2, packet_vars>>
    /\ reaped' = {}
    /\ drv_log' = NoLog

\* sr_session_check_aborted not looking at the flag
check_aborted_blind(from, pc_next) ==
    /\ stop_mutex = "free"
    /\ pc' = pc_next
    /\ UNCHANGED <<stop_mutex, sync>>

\* sr_session_check_aborted called at the point from of the loop, up to its
\* call of sr_session_stop_sync: the mutex is locked (the thread waits while
\* the second thread holds it) and the flag read; with the flag clear the
\* mutex is unlocked at once and the loop goes on at pc_next
check_aborted(from, pc_next) ==
    /\ stop_mutex = "free"
    /\ IF abort_session THEN
           /\ stop_mutex' = "loop"
           /\ sync' = [l |-> 1, from |-> from]
           /\ pc' = "stop_sync"
       ELSE
           /\ pc' = pc_next
           /\ UNCHANGED <<stop_mutex, sync>>

(***************************************************************************)
(* The event loop.                                                         *)
(***************************************************************************)
\* sr_session_run up to its loop
sr_session_run ==
    /\ pc = "idle"
    /\ IF devs = <<>> THEN
           /\ result' = "SR_ERR_ARG"
           /\ ran' = [NoRan EXCEPT !.ret = "SR_ERR_ARG"]
           /\ UNCHANGED <<running, pc, bare>>
       ELSE
           \* session->running is written without the stop mutex
           /\ running' = TRUE
           /\ bare' = bare \cup {"run writes running"}
           /\ pc' = "run"
           /\ result' = "none"
           /\ ran' = [NoRan EXCEPT !.stale = abort_session]
    /\ UNCHANGED <<sources, pollfds, usb_source_present, abort_session, devs,
                   sdi_session, now, loop, call, fired, gone, next_id,
                   stop_mutex, other_pc, stop_calls, stop_syncs, sync,
                   acq_stops, started, checks>>
    /\ UNCHANGED waited
    /\ UNCHANGED <<feed_vars, devs2, packet_vars>>
    /\ reaped' = {}
    /\ drv_log' = NoLog

\* the loop of sr_session_run finds the registry empty and returns
run_return ==
    /\ pc = "run"
    /\ Len(sources) = 0
    /\ pc' = "idle"
    /\ result' = "SR_OK"
    /\ UNCHANGED <<sources, pollfds, usb_source_present, abort_session,
                   running, devs, sdi_session, now, loop, call, fired, gone,
                   next_id, stop_vars>>
    /\ UNCHANGED waited
    /\ ran' = [ran EXCEPT !.ret = "SR_OK"]
    /\ UNCHANGED <<feed_vars, devs2, packet_vars>>
    /\ reaped' = {}
    /\ drv_log' = NoLog

\* the first loop of sr_session_iteration: the earliest deadline
RECURSIVE min_due_of(_, _)
min_due_of(srcs, n) ==
    IF n = 0 THEN INT64_MAX
    ELSE LET m == min_due_of(srcs, n - 1)
         IN IF srcs[n].due < m THEN srcs[n].due ELSE m

\* ... and every triggered flag cleared
clear_triggered(srcs) ==
    [j \in 1..Len(srcs) |-> [srcs[j] EXCEPT !.triggered = FALSE]]

\* the timeout handed to g_poll, in milliseconds (INT_MAX is out of reach)
poll_timeout_ms(min_due, start_time) ==
    IF min_due = INT64_MAX THEN -1
    ELSE IF min_due > start_time THEN (min_due - start_time + 999) \div 1000
    ELSE 0

\* the answers of libusb_get_next_timeout: an error, no timeout pending, or
\* a timeout in microseconds
UsbHints == {[ret |-> -1, usec |-> 0], [ret |-> 0, usec |-> 0],
             [ret |-> 1, usec |-> 0]}

\* sr_session_iteration from its start to the return of g_poll.  usb is the
\* answer of libusb, stop_time the clock when g_poll returns, kind how it
\* returns and rv the revents it stores.
iteration_poll(usb, stop_time, kind, rv) ==
    /\ pc = "run"
    /\ Len(sources) > 0
    /\ usb_source_present \/ usb = [ret |-> 0, usec |-> 0]
    /\ stop_time >= now
    /\ LET start_time == now
           usb_due == IF usb_source_present /\ usb.ret = 1
                      THEN start_time + usb.usec ELSE INT64_MAX
           due0 == min_due_of(sources, Len(sources))
           min_due == IF usb_due < due0 THEN usb_due ELSE due0
           timeout_ms == poll_timeout_ms(min_due, start_time)
           nonzero == {j \in 1..Len(pollfds) : rv[j] # 0}
       IN IF usb_source_present /\ usb.ret < 0 THEN
              \* libusb_get_next_timeout failed: return SR_ERR, before g_poll
              /\ stop_time = now /\ kind = "fail" /\ nonzero = {}
              /\ pc' = "idle"
              /\ result' = "SR_ERR"
              /\ ran' = [ran EXCEPT !.ret = "SR_ERR", !.failed = TRUE]
              /\ sources' = clear_triggered(sources)
              /\ UNCHANGED <<pollfds, now, loop, fired>>
          ELSE
              /\ sources' = clear_triggered(sources)
              /\ now' = stop_time
              /\ ran' = IF kind = "fail"
                        THEN [ran EXCEPT !.ret = "SR_ERR", !.polled = TRUE,
                                         !.failed = TRUE]
                        ELSE [ran EXCEPT !.polled = TRUE]
              /\ CASE kind = "events" ->
                        \* some descriptors are ready
                        /\ nonzero # {}
                        /\ pollfds' = [j \in 1..Len(pollfds) |->
                                          [pollfds[j] EXCEPT !.revents = rv[j]]]
                        /\ loop' = [NoLoop EXCEPT !.ret = Cardinality(nonzero),
                                        !.stop_time = stop_time,
                                        !.usb_due = usb_due]
                        /\ pc' = "dispatch"
                        /\ fired' = {}
                        /\ result' = "none"
                   [] kind = "timeout" ->
                        \* the timeout ran out with nothing ready
                        /\ nonzero = {}
                        /\ timeout_ms >= 0
                        /\ stop_time >= start_time + 1000 * timeout_ms
                        /\ pollfds' = [j \in 1..Len(pollfds) |->
                                          [pollfds[j] EXCEPT !.revents = 0]]
                        /\ loop' = [NoLoop EXCEPT !.ret = 0,
                                        !.stop_time = stop_time,
                                        !.usb_due = usb_due]
                        /\ pc' = "dispatch"
                        /\ fired' = {}
                        /\ result' = "none"
                   [] kind = "eintr" ->
                        \* interrupted by a signal: revents are left as they were
                        /\ nonzero = {}
                        /\ loop' = [NoLoop EXCEPT !.ret = -1,
                                        !.stop_time = stop_time,
                                        !.usb_due = usb_due]
                        /\ pc' = "dispatch"
                        /\ fired' = {}
                        /\ result' = "none"
                        /\ UNCHANGED pollfds
                   [] kind = "fail" ->
                        \* any other error of g_poll: return SR_ERR
                        /\ nonzero = {}
                        /\ pc' = "idle"
                        /\ result' = "SR_ERR"
                        /\ UNCHANGED <<pollfds, loop, fired>>
    /\ UNCHANGED <<usb_source_present, abort_session, running, devs,
                   sdi_session, call, gone, next_id, stop_vars>>
    /\ waited' = IF ~abort_session THEN waited
               ELSE IF waited < 2 THEN waited + 1 ELSE 2
    /\ UNCHANGED <<feed_vars, devs2, packet_vars>>
    /\ reaped' = {}
    /\ drv_log' = NoLog

\* the inner loop of the dispatch pass: the fd and the revents gathered for
\* the source at index i (0-based) from the num_fds descriptors at fd_index
RECURSIVE gather(_, _, _, _, _, _)
gather(pfds, fd_index, num_fds, k, fd, revents) ==
    IF k >= num_fds THEN [fd |-> fd, revents |-> revents]
    ELSE gather(pfds, fd_index, num_fds, k + 1, pfds[fd_index + k + 1].fd,
                BitOr(revents, pfds[fd_index + k + 1].revents))

\* the dispatch test without the look at the triggered flag
dispatch_test_no_guard(src, pfds, fd_index, ret, stop_time, usb_due) ==
    LET g == gather(pfds, fd_index, src.num_fds, 0, src.poll_object, 0)
        fd == IF src.num_fds > 1 THEN -1 ELSE g.fd
        revents == IF ret <= 0 THEN 0 ELSE g.revents
        due == IF usb_due < src.due /\ src.poll_object = LibusbCtx
               THEN usb_due ELSE src.due
    IN [fd |-> fd, revents |-> revents, due |-> due,
        fires |-> /\ ~(ret > 0 /\ g.revents = 0)
                  /\ ~(revents = 0 /\ stop_time < due)]

\* the fd and revents a callback is given, and whether the source fires
dispatch_test(src, pfds, fd_index, ret, stop_time, usb_due) ==
    LET g == gather(pfds, fd_index, src.num_fds, 0, src.poll_object, 0)
        fd == IF src.num_fds > 1 THEN -1 ELSE g.fd
        revents == IF ret <= 0 THEN 0 ELSE g.revents
        due == IF usb_due < src.due /\ src.poll_object = LibusbCtx
               THEN usb_due ELSE src.due
    IN [fd |-> fd, revents |-> revents, due |-> due,
        fires |-> /\ ~src.triggered
                  /\ ~(ret > 0 /\ g.revents = 0)
                  /\ ~(revents = 0 /\ stop_time < due)]

\* the value of i with which the pass goes on after a callback: the body
\* ends with i = 0 and the for statement then increments it
restart_index == 0 + 1

\* the descriptors an entry owns, by the tag each got when it was added
OwnFds(pfds, id) == SelectSeq(pfds, LAMBDA p : p.owner = id)

RECURSIVE OrAll(_, _)
OrAll(pfds, n) ==
    IF n = 0 THEN 0 ELSE BitOr(OrAll(pfds, n - 1), pfds[n].revents)

\* one turn of the dispatch loop: the source at loop.i is skipped or fires
dispatch_source ==
    /\ pc = "dispatch"
    /\ loop.i < Len(sources)
    /\ LET src == sources[loop.i + 1]
           t == dispatch_test(src, pollfds, loop.fd_index, loop.ret,
                              loop.stop_time, loop.usb_due)
           own == OwnFds(pollfds, src.id)
       IN IF ~t.fires THEN
              /\ loop' = [loop EXCEPT !.i = loop.i + 1,
                              !.fd_index = loop.fd_index + src.num_fds]
              /\ UNCHANGED <<sources, pc, call, fired>>
          ELSE
              /\ sources' = [sources EXCEPT
                     ![loop.i + 1].due =
                         IF src.timeout >= 0 THEN loop.stop_time + src.timeout
                         ELSE src.due,
                     ![loop.i + 1].triggered = TRUE]
              /\ loop' = [loop EXCEPT !.triggered = TRUE,
                              !.fd_index = loop.fd_index + src.num_fds]
              /\ call' = [id |-> src.id, poll_object |-> src.poll_object,
                          fd |-> t.fd, revents |-> t.revents,
                          ret |-> loop.ret, num_fds |-> src.num_fds,
                          own_fd |-> IF Len(own) = 1 THEN own[1].fd ELSE -1,
                          own_revents |-> OrAll(own, Len(own)),
                          timeout |-> src.timeout,
                          triggered |-> sources'[loop.i + 1].triggered,
                          again |-> src.id \in fired,
                          due |-> t.due,
                          due_set |-> sources'[loop.i + 1].due]
              /\ fired' = fired \cup {src.id}
              /\ pc' = "cb"
    /\ result' = "none"
    /\ UNCHANGED <<pollfds, usb_source_present, abort_session, running, devs,
                   sdi_session, now, gone, next_id, stop_vars>>
    /\ UNCHANGED waited
    /\ UNCHANGED ran
    /\ UNCHANGED <<feed_vars, devs2, packet_vars>>
    /\ reaped' = {}
    /\ drv_log' = NoLog

\* time passes while a callback runs
callback_elapse ==
    /\ pc = "cb"
    /\ now < MaxTime
    /\ now' = now + 1000
    /\ result' = "none"
    /\ UNCHANGED <<sources, pollfds, usb_source_present, abort_session,
                   running, devs, sdi_session, pc, loop, call, fired, gone,
                   next_id, stop_vars>>
    /\ UNCHANGED waited
    /\ UNCHANGED ran
    /\ UNCHANGED <<feed_vars, devs2, packet_vars>>
    /\ reaped' = {}
    /\ drv_log' = NoLog

\* the source removed under the fd the callback was given
removal_key_fd(c) == c.fd

\* the poll_object under which the source of a callback that returned FALSE
\* is removed
removal_key(c) == c.poll_object

\* the callback returns keep: the source is removed if keep is FALSE, and
\* the flag is looked at unless a stop was made in this iteration already;
\* then the pass goes on (fd_index = 0, i = 0, ++i), after
\* sr_session_stop_sync when the flag was found set
callback_return(keep) ==
    /\ pc = "cb"
    /\ LET r == IF keep
                THEN [ret |-> "SR_OK", sources |-> sources, pollfds |-> pollfds]
                ELSE source_remove_internal(sources, pollfds, removal_key(call))
       IN /\ sources' = r.sources
          /\ pollfds' = r.pollfds
          /\ usb_source_present' =
                 IF ~keep /\ r.ret = "SR_OK" /\ removal_key(call) = LibusbCtx
                 THEN FALSE ELSE usb_source_present
    /\ IF loop.stopped THEN
           /\ pc' = "dispatch"
           /\ UNCHANGED <<stop_mutex, sync, checks>>
       ELSE
           /\ check_aborted("cb", "dispatch")
           /\ checks' = checks + 1
    /\ loop' = IF ~loop.stopped /\ abort_session THEN loop
               ELSE [loop EXCEPT !.fd_index = 0, !.i = restart_index]
    /\ gone' = IF keep THEN gone ELSE gone \cup {call.id}
    /\ reaped' = ({sources[j].id : j \in 1..Len(sources)}
                   \ {sources'[j].id : j \in 1..Len(sources')})
    /\ call' = NoCall
    /\ result' = "none"
    /\ UNCHANGED <<abort_session, running, devs, sdi_session, now, fired,
                   next_id, other_pc, stop_calls, stop_syncs, acq_stops,
                   started, bare>>
    /\ UNCHANGED waited
    /\ UNCHANGED ran
    /\ UNCHANGED <<feed_vars, devs2, packet_vars>>
    /\ drv_log' = NoLog

\* the dispatch loop ends: the last check for a stop request when no source
\* fired, and back to the loop of sr_session_run
dispatch_end ==
    /\ pc = "dispatch"
    /\ loop.i >= Len(sources)
    /\ IF loop.triggered THEN
           /\ pc' = "run"
           /\ UNCHANGED <<stop_mutex, sync>>
       ELSE check_aborted("end", "run")
    /\ checks' = 0
    /\ loop' = NoLoop
    /\ fired' = {}
    /\ result' = "none"
    /\ UNCHANGED <<sources, pollfds, usb_source_present, abort_session,
                   running, devs, sdi_session, now, call, gone, next_id,
                   other_pc, stop_calls, stop_syncs, acq_stops, started, bare>>
    /\ UNCHANGED waited
    /\ UNCHANGED ran
    /\ UNCHANGED <<feed_vars, devs2, packet_vars>>
    /\ reaped' = {}
    /\ drv_log' = NoLog

(***************************************************************************)
(* The devices' drivers, sr_session_start and sr_session_stop_sync.        *)
(***************************************************************************)
\* the poll_object of the timer source the driver of a device registers in
\* its dev_acquisition_start and removes in its dev_acquisition_stop (dev2's
\* driver registers none)
DriverKey(d) == IF d = "dev1" THEN 300 ELSE 0
\* the period of that timer, in milliseconds
DriverPeriod == 1

\* the registry after the dev_acquisition_start of the drivers of the first
\* n devices of a roster
RECURSIVE acquisition_start(_, _, _, _, _, _)
acquisition_start(roster, n, srcs, pfds, id, t) ==
    IF n = 0 THEN [ret |-> "SR_OK", sources |-> srcs, pollfds |-> pfds,
                   next_id |-> id]
    ELSE LET b == acquisition_start(roster, n - 1, srcs, pfds, id, t)
         IN IF b.ret # "SR_OK" \/ DriverKey(roster[n]) = 0 THEN b
            ELSE LET r == source_add_internal(b.sources, b.pollfds, NullFds,
                              0, DriverPeriod, FALSE, DriverKey(roster[n]),
                              b.next_id, t)
                 IN [ret |-> r.ret, sources |-> r.sources,
                     pollfds |-> r.pollfds,
                     next_id |-> IF r.ret = "SR_OK" THEN b.next_id + 1
                                 ELSE b.next_id]

\* session->trigger: NULL, or the stages of a trigger, each the sequence of
\* its matches; of a match, whether it has a channel, and its match type
\* (0 is none)
NoTrigger == "NULL"
Match(ch, mt) == [channel |-> ch, match |-> mt]
Triggers == {NoTrigger, <<>>, << <<>> >>, << <<Match(TRUE, 1)>> >>,
             << <<Match(FALSE, 1)>> >>, << <<Match(TRUE, 1)>>,
                                          <<Match(TRUE, 0)>> >>}

\* verify_trigger
verify_trigger(trigger) ==
    IF trigger = <<>> THEN "SR_ERR"
    ELSE IF \E l \in 1..Len(trigger) :
                \/ trigger[l] = <<>>
                \/ \E mi \in 1..Len(trigger[l]) :
                       \/ ~trigger[l][mi].channel
                       \/ trigger[l][mi].match = 0
         THEN "SR_ERR"
         ELSE "SR_OK"

\* the search of sr_session_start for an enabled channel of a device
Channels(d, ok) == [op |-> "enabled_channels", dev |-> d, ok |-> ok]

\* what the read of sdi->driver->name, or the call of
\* sdi->driver->dev_acquisition_start, of a device without driver may do:
\* end the process, or go on with whatever is found at that address
NullDriver == {"crash", "goes on"}

\* The device loop of sr_session_start from list element l on: the return
\* code ("crash" if the call does not return) and the steps made.  enabled,
\* commit_ok and start_ok say of every device whether it has an enabled
\* channel, whether sr_config_commit returns SR_OK for it and whether its
\* dev_acquisition_start does; ub is what the use of a NULL sdi->driver does.
RECURSIVE start_devices(_, _, _, _, _, _, _)
start_devices(roster, l, enabled, commit_ok, start_ok, ub, log) ==
    IF l > Len(roster) THEN [ret |-> "SR_OK", calls |-> log]
    ELSE
        LET d == roster[l]
        IN IF ~enabled[d] THEN
               [ret |-> IF ~HasDriver(d) /\ ub = "crash" THEN "crash"
                        ELSE "SR_ERR",
                calls |-> Append(log, Channels(d, FALSE))]
           ELSE IF ~commit_ok[d] THEN
               [ret |-> "SR_ERR",
                calls |-> log \o <<Channels(d, TRUE), Commit(d, FALSE)>>]
           ELSE IF ~HasDriver(d) /\ ub = "crash" THEN
               [ret |-> "crash",
                calls |-> log \o <<Channels(d, TRUE), Commit(d, TRUE)>>]
           ELSE IF ~start_ok[d] THEN
               [ret |-> "SR_ERR",
                calls |-> log \o <<Channels(d, TRUE), Commit(d, TRUE),
                                   Start(d, FALSE)>>]
           ELSE
               start_devices(roster, l + 1, enabled, commit_ok, start_ok,
                   ub, log \o <<Channels(d, TRUE), Commit(d, TRUE),
                                Start(d, TRUE)>>)

\* the number of devices whose dev_acquisition_start returned SR_OK
StartedIn(calls) ==
    Cardinality({j \in 1..Len(calls) :
                    calls[j].op = "dev_acquisition_start" /\ calls[j].ok})

\* sr_session_start with session->trigger as it is at the call; the drivers
\* that start register their timer; the call is entered in drv_log when log
\* is TRUE
session_start(trigger, enabled, commit_ok, start_ok, ub, log) ==
    /\ pc = "idle"
    /\ IF devs = <<>> THEN
           /\ result' = "SR_ERR_ARG"
           /\ drv_log' = IF log
                          THEN [op |-> "start", session |-> "session",
                                dev |-> "NULL", run |-> running,
                                calls |-> <<>>, ret |-> "SR_ERR_ARG"]
                          ELSE NoLog
           /\ UNCHANGED <<sources, pollfds, next_id, started, pc>>
       ELSE IF trigger # NoTrigger /\ verify_trigger(trigger) # "SR_OK" THEN
           /\ result' = "SR_ERR"
           /\ drv_log' = IF log
                          THEN [op |-> "start", session |-> "session",
                                dev |-> "NULL", run |-> running,
                                calls |-> <<>>, ret |-> "SR_ERR"]
                          ELSE NoLog
           /\ UNCHANGED <<sources, pollfds, next_id, started, pc>>
       ELSE
           LET t == start_devices(devs, 1, enabled, commit_ok, start_ok, ub,
                                  <<>>)
               r == acquisition_start(devs, StartedIn(t.calls), sources,
                                      pollfds, next_id, now)
           IN /\ Len(r.sources) <= MaxSources
              /\ r.next_id <= MaxIds + 1
              \* a driver whose timer is registered already does not
              \* return SR_OK
              /\ r.ret = "SR_OK"
              /\ sources' = r.sources
              /\ pollfds' = r.pollfds
              /\ next_id' = r.next_id
              /\ result' = IF t.ret = "SR_OK" THEN r.ret ELSE t.ret
              /\ drv_log' = IF log
                             THEN [op |-> "start", session |-> "session",
                                   dev |-> "NULL", run |-> running,
                                   calls |-> t.calls,
                                   ret |-> IF t.ret = "SR_OK" THEN r.ret
                                           ELSE t.ret]
                             ELSE NoLog
              /\ started' = IF t.ret = "SR_OK" /\ r.ret = "SR_OK" THEN TRUE
                            ELSE started
              /\ pc' = IF t.ret = "crash" THEN "crashed" ELSE pc
    /\ UNCHANGED <<usb_source_present, abort_session, running, devs,
                   sdi_session, now, loop, call, fired, gone,
                   stop_mutex, other_pc, stop_calls, stop_syncs, sync,
                   acq_stops, bare, checks>>
    /\ UNCHANGED waited
    /\ Called
    /\ UNCHANGED <<feed_vars, devs2, packet_vars>>
    /\ reaped' = {}

\* sr_session_start without trigger when every device has an enabled
\* channel and its configuration commits; the first n devices are started,
\* the driver of device number n failing when fails is TRUE
sr_session_start(n, fails) ==
    /\ IF devs = <<>> THEN n = 0 /\ ~fails
       ELSE n \in 1..Len(devs) /\ (fails \/ n = Len(devs))
    /\ session_start(NoTrigger, [d \in AllDevices |-> TRUE],
                     [d \in AllDevices |-> TRUE],
                     [d \in AllDevices |->
                         ~(fails /\ devs # <<>> /\ d = devs[n])],
                     "crash", FALSE)

\* the registry after the dev_acquisition_stop of the driver of device d
acquisition_stop(d, srcs, pfds) ==
    IF DriverKey(d) \in KeysOf(srcs)
    THEN source_remove_internal(srcs, pfds, DriverKey(d))
    ELSE [ret |-> "SR_OK", sources |-> srcs, pollfds |-> pfds]

\* One turn of the loop of sr_session_stop_sync, which runs under the stop
\* mutex: the dev_acquisition_stop of the next device, if it has one.  With
\* reenter the driver (or a subscriber it sends its last packet to) calls
\* sr_session_stop: g_mutex_lock on a mutex the calling thread holds is
\* undefined; the thread blocks for good or the process is aborted
stop_sync_dev(reenter, outcome) ==
    /\ pc = "stop_sync"
    /\ sync.l <= Len(devs)
    /\ LET d == devs[sync.l]
       IN IF HasDriver(d) /\ HasAcqStop(d) THEN
              LET r == acquisition_stop(d, sources, pollfds)
              IN /\ sources' = r.sources
                 /\ pollfds' = r.pollfds
                 /\ acq_stops' = [acq_stops EXCEPT ![d] = acq_stops[d] + 1]
                 /\ IF reenter THEN
                        /\ stop_calls < MaxStops
                        /\ stop_calls' = stop_calls + 1
                        /\ pc' = outcome
                        /\ UNCHANGED sync
                    ELSE
                        /\ sync' = [sync EXCEPT !.l = sync.l + 1]
                        /\ UNCHANGED <<pc, stop_calls>>
          ELSE
              /\ ~reenter
              /\ sync' = [sync EXCEPT !.l = sync.l + 1]
              /\ UNCHANGED <<sources, pollfds, acq_stops, pc, stop_calls>>
    /\ result' = "none"
    /\ UNCHANGED <<usb_source_present, abort_session, running, devs,
                   sdi_session, now, loop, call, fired, gone, next_id,
                   stop_mutex, other_pc, stop_syncs, started, bare, checks>>
    /\ UNCHANGED waited
    /\ UNCHANGED ran
    /\ UNCHANGED <<feed_vars, devs2, packet_vars>>
    /\ reaped' = {}
    /\ drv_log' = NoLog

\* the flag as sr_session_check_aborted would leave it if it did not clear it
flag_after_stop_kept(flag) == flag

\* the flag as sr_session_check_aborted leaves it after sr_session_stop_sync
flag_after_stop(flag) == FALSE

\* sr_session_stop_sync ends (running = FALSE) and sr_session_check_aborted
\* clears the flag and unlocks the mutex; the loop goes on where it was
stop_sync_return ==
    /\ pc = "stop_sync"
    /\ sync.l > Len(devs)
    /\ running' = FALSE
    /\ abort_session' = flag_after_stop(abort_session)
    /\ stop_mutex' = "free"
    /\ stop_syncs' = stop_syncs + 1
    /\ started' = FALSE
    /\ sync' = NoSync
    /\ IF sync.from = "cb" THEN
           /\ loop' = [loop EXCEPT !.stopped = TRUE, !.fd_index = 0,
                           !.i = restart_index]
           /\ pc' = "dispatch"
       ELSE
           /\ pc' = "run"
           /\ UNCHANGED loop
    /\ result' = "none"
    /\ UNCHANGED <<sources, pollfds, usb_source_present, devs, sdi_session,
                   now, call, fired, gone, next_id, other_pc, stop_calls,
                   acq_stops, bare, checks>>
    /\ waited' = 0
    /\ ran' = [ran EXCEPT !.stale = FALSE]
    /\ UNCHANGED <<feed_vars, devs2, packet_vars>>
    /\ reaped' = {}
    /\ drv_log' = NoLog

Next ==
    \/ \E fd \in RawFds, t \in Timeouts : sr_session_source_add(fd, t, FALSE)
    \/ \E p \in PollfdArgs, t \in PollfdTimeouts :
           sr_session_source_add_pollfd(p, t, FALSE)
    \/ \E nf \in 0..1, t \in DriverTimeouts, n \in BOOLEAN, k \in DriverKeys :
           sr_session_source_add_internal(NullFds, nf, t, n, k)
    \/ \E t \in UsbTimeouts : usb_source_add(t)
    \/ \E k \in PollObjects : sr_session_source_remove_internal(k)
    \/ \E d \in Devices, c \in BOOLEAN, st \in BOOLEAN :
           sr_session_dev_add(d, c, st, FALSE)
    \/ sr_session_run
    \/ run_return
    \/ \E u \in UsbHints, st \in Times,
          kind \in {"events", "timeout", "eintr", "fail"},
          rv \in [1..Len(pollfds) -> Revents] :
           iteration_poll(u, st, kind, rv)
    \/ dispatch_source
    \/ callback_elapse
    \/ \E keep \in BOOLEAN : callback_return(keep)
    \/ dispatch_end

Spec == Init /\ [][Next]_vars

(***************************************************************************)
(* The device rosters of two sessions, one of them run.                    *)
(***************************************************************************)
DevNext ==
    \/ \E d \in AllDevices, c, st \in BOOLEAN :
           sr_session_dev_add(d, c, st, TRUE)
    \/ \E d \in AllDevices : session2_dev_add(d)
    \/ \E s \in Sessions : sr_session_dev_remove_all(s)
    \/ sr_session_run
    \/ run_return

DevSpec == Init /\ [][DevNext]_vars

(***************************************************************************)
(* The start of a session whose roster holds real and virtual devices.     *)
(***************************************************************************)
StartDevices == {"dev1", "dev2", "virt"}

\* for every device one outcome; only those of StartDevices vary
Outcomes == {[d \in AllDevices |-> IF d \in StartDevices THEN f[d] ELSE TRUE] :
                f \in [StartDevices -> BOOLEAN]}

StartNext ==
    \/ \E d \in StartDevices : sr_session_dev_add(d, TRUE, TRUE, TRUE)
    \/ \E tr \in Triggers, en \in Outcomes, co \in Outcomes, so \in Outcomes,
          ub \in NullDriver : session_start(tr, en, co, so, ub, TRUE)

StartSpec == Init /\ [][StartNext]_vars

(***************************************************************************)
(* The datafeed bus.                                                       *)
(***************************************************************************)
\* the packets drivers send (a packet is known by its content), and the NULL
\* packet pointer
Packets == {1, 2, 3}
NullPacket == 0

\* the transform modules: offset adds one to the content, filter swallows
\* the packets above 2 and doubles the others, check fails on packet 2
TransformModules == {"offset", "filter", "check"}

\* t->module->receive(t, packet_in, &packet_out): the status it returns and
\* the packet it stores in packet_out
receive(t, packet_in) ==
    CASE t = "offset" -> [ret |-> 0, out |-> packet_in + 1]
      [] t = "filter" -> [ret |-> 0, out |-> IF packet_in > 2 THEN NullPacket
                                             ELSE 2 * packet_in]
      [] t = "check" -> [ret |-> IF packet_in = 2 THEN -1 ELSE 0,
                         out |-> packet_in]

\* sr_transform_new (of the transform code) appends a module to the list
transform_add(t) ==
    /\ pc = "idle"
    /\ Len(transforms) < MaxTransforms
    /\ transforms' = Append(transforms, t)
    /\ result' = "SR_OK"
    /\ Called
    /\ UNCHANGED <<sources, pollfds, usb_source_present, abort_session,
                   running, devs, sdi_session, now, pc, loop, call, fired,
                   gone, next_id, stop_vars, waited, datafeed_callbacks, seen,
                   sends, devs2, packet_vars>>
    /\ reaped' = {}
    /\ drv_log' = NoLog

\* sr_session_datafeed_callback_add: a subscriber is known by the number of
\* its registration
sr_session_datafeed_callback_add(cb_null) ==
    /\ pc = "idle"
    /\ IF cb_null THEN
           /\ result' = "SR_ERR_ARG"
           /\ UNCHANGED <<datafeed_callbacks, seen>>
       ELSE
           /\ Len(seen) < MaxSubscribers
           /\ datafeed_callbacks' = Append(datafeed_callbacks, Len(seen) + 1)
           /\ seen' = Append(seen, <<>>)
           /\ result' = "SR_OK"
    /\ Called
    /\ UNCHANGED <<sources, pollfds, usb_source_present, abort_session,
                   running, devs, sdi_session, now, pc, loop, call, fired,
                   gone, next_id, stop_vars, waited, transforms, sends, devs2, packet_vars>>
    /\ reaped' = {}
    /\ drv_log' = NoLog

\* sr_session_datafeed_callback_remove_all
sr_session_datafeed_callback_remove_all ==
    /\ pc = "idle"
    /\ datafeed_callbacks # <<>>
    /\ datafeed_callbacks' = <<>>
    /\ result' = "SR_OK"
    /\ Called
    /\ UNCHANGED <<sources, pollfds, usb_source_present, abort_session,
                   running, devs, sdi_session, now, pc, loop, call, fired,
                   gone, next_id, stop_vars, waited, transforms, seen, sends,
                   devs2, packet_vars>>
    /\ reaped' = {}
    /\ drv_log' = NoLog

\* the transform loop of sr_session_send going on after a module that
\* returned no packet, with the packet it was given
RECURSIVE send_transforms_on(_, _, _, _)
send_transforms_on(chain, l, packet_in, log) ==
    IF l > Len(chain) THEN
        [ret |-> "SR_OK", packet |-> packet_in, log |-> log]
    ELSE
        LET r == receive(chain[l], packet_in)
            log2 == Append(log, [t |-> chain[l], in |-> packet_in])
        IN IF r.ret < 0 THEN
               [ret |-> "SR_ERR", packet |-> NullPacket, log |-> log2]
           ELSE IF r.out = NullPacket THEN
               send_transforms_on(chain, l + 1, packet_in, log2)
           ELSE
               send_transforms_on(chain, l + 1, r.out, log2)

\* The transform loop of sr_session_send from list element l on: the return
\* code if the loop returns, the packet that leaves the chain (NullPacket if
\* none does), and the modules invoked with the packet each was given.
RECURSIVE send_transforms(_, _, _, _)
send_transforms(chain, l, packet_in, log) ==
    IF l > Len(chain) THEN
        [ret |-> "SR_OK", packet |-> packet_in, log |-> log]
    ELSE
        LET r == receive(chain[l], packet_in)
            log2 == Append(log, [t |-> chain[l], in |-> packet_in])
        IN IF r.ret < 0 THEN
               [ret |-> "SR_ERR", packet |-> NullPacket, log |-> log2]
           ELSE IF r.out = NullPacket THEN
               [ret |-> "SR_OK", packet |-> NullPacket, log |-> log2]
           ELSE
               send_transforms(chain, l + 1, r.out, log2)

\* the subscriber loop of sr_session_send from list element l on: what each
\* subscriber has seen, and the calls made
RECURSIVE send_callbacks(_, _, _, _, _)
send_callbacks(cbs, l, packet, sn, log) ==
    IF l > Len(cbs) THEN [seen |-> sn, log |-> log]
    ELSE send_callbacks(cbs, l + 1, packet,
             [sn EXCEPT ![cbs[l]] = Append(sn[cbs[l]], packet)],
             Append(log, [cb |-> cbs[l], packet |-> packet]))

\* sr_session_send(sdi, packet): sdi is a device or "NULL", packet a packet
\* or NullPacket.  A device of session2 is sent to the lists of session2,
\* which are empty.
sr_session_send(sdi, packet) ==
    /\ CanCall
    /\ Len(sends) < MaxSends
    /\ LET chain == IF sdi = "NULL" \/ sdi_session[sdi] # "session" THEN <<>>
                    ELSE transforms
           cbs == IF sdi = "NULL" \/ sdi_session[sdi] # "session" THEN <<>>
                  ELSE datafeed_callbacks
           t == send_transforms(chain, 1, packet, <<>>)
           c == send_callbacks(cbs, 1, t.packet, seen, <<>>)
           rec == [sdi |-> sdi, packet |-> packet, chain |-> chain,
                   subs |-> cbs]
       IN IF sdi = "NULL" \/ packet = NullPacket THEN
              /\ result' = "SR_ERR_ARG"
              /\ sends' = Append(sends, [rec EXCEPT !.chain = <<>>,
                                                   !.subs = <<>>]
                                        @@ [ret |-> "SR_ERR_ARG",
                                            t_log |-> <<>>, cb_log |-> <<>>])
              /\ UNCHANGED seen
          ELSE IF sdi_session[sdi] = "NULL" THEN
              /\ result' = "SR_ERR_BUG"
              /\ sends' = Append(sends, rec @@ [ret |-> "SR_ERR_BUG",
                                                t_log |-> <<>>,
                                                cb_log |-> <<>>])
              /\ UNCHANGED seen
          ELSE IF t.packet = NullPacket THEN
              /\ result' = t.ret
              /\ sends' = Append(sends, rec @@ [ret |-> t.ret,
                                                t_log |-> t.log,
                                                cb_log |-> <<>>])
              /\ UNCHANGED seen
          ELSE
              /\ result' = "SR_OK"
              /\ sends' = Append(sends, rec @@ [ret |-> "SR_OK",
                                                t_log |-> t.log,
                                                cb_log |-> c.log])
              /\ seen' = c.seen
    /\ UNCHANGED <<sources, pollfds, usb_source_present, abort_session,
                   running, devs, sdi_session, now, pc, loop, call, fired,
                   gone, next_id, stop_vars, waited, ran, transforms,
                   datafeed_callbacks, devs2, packet_vars>>
    /\ reaped' = {}
    /\ drv_log' = NoLog

\* the devices packets are sent for
SendDevices == {"dev1"}

SendNext ==
    \/ \E d \in SendDevices : sr_session_dev_add(d, TRUE, TRUE, FALSE)
    \/ \E t \in TransformModules : transform_add(t)
    \/ \E n \in BOOLEAN : sr_session_datafeed_callback_add(n)
    \/ sr_session_datafeed_callback_remove_all
    \/ \E d \in SendDevices \cup {"NULL"}, pk \in Packets \cup {NullPacket} :
           sr_session_send(d, pk)

SendSpec == Init /\ [][SendNext]_vars

(***************************************************************************)
(* Packets, their deep copy and its release.                               *)
(***************************************************************************)
\* the GVariants that configuration entries refer to
Variants == {"v1", "v2"}

\* the packet types of enum sr_packetype, and a value that is none of them
KnownTypes == {"SR_DF_HEADER", "SR_DF_END", "SR_DF_META", "SR_DF_TRIGGER",
               "SR_DF_LOGIC", "SR_DF_ANALOG", "SR_DF_FRAME_BEGIN",
               "SR_DF_FRAME_END", "SR_DF_ANALOG2"}
PacketTypes == KnownTypes \cup {"other"}

\* a payload is a block at an address with its fields; the blocks of the
\* packet a driver made are at "orig..." addresses
NullPayload == [kind |-> "NULL"]
\* struct sr_config: key and data, the GVariant
Config(at, k, v) == [at |-> at, key |-> k, data |-> v]
\* a data buffer and its bytes
Buffer(at, bytes) == [at |-> at, bytes |-> bytes]

HeaderPayloads == {[kind |-> "header", at |-> "orig.payload",
                    feed_version |-> 1]}
MetaPayloads ==
    {[kind |-> "meta", at |-> "orig.payload", config |-> c] :
        c \in {<<>>,
               <<Config("orig.src1", 1, "v1")>>,
               <<Config("orig.src1", 1, "v1"), Config("orig.src2", 2, "v2")>>,
               <<Config("orig.src1", 1, "v1"),
                 Config("orig.src2", 2, "v1")>>}}
LogicPayloads ==
    {[kind |-> "logic", at |-> "orig.payload", length |-> n, unitsize |-> 1,
      data |-> Buffer("orig.data", [j \in 1..n |-> 7])] : n \in 0..1}
AnalogPayloads ==
    {[kind |-> "analog", at |-> "orig.payload",
      channels |-> [at |-> "orig.channels", list |-> <<"ch1">>],
      num_samples |-> n, mq |-> 1, unit |-> 1, mqflags |-> 0,
      data |-> Buffer("orig.data", [j \in 1..n |-> 7])] : n \in 0..1}
Analog2Payloads == {[kind |-> "analog2", at |-> "orig.payload",
                     num_samples |-> 1]}

\* the packets a driver makes
PacketInputs ==
    {[type |-> "SR_DF_HEADER", payload |-> q] : q \in HeaderPayloads}
    \cup {[type |-> "SR_DF_META", payload |-> q] : q \in MetaPayloads}
    \cup {[type |-> "SR_DF_LOGIC", payload |-> q] : q \in LogicPayloads}
    \cup {[type |-> "SR_DF_ANALOG", payload |-> q] : q \in AnalogPayloads}
    \cup {[type |-> "SR_DF_ANALOG2", payload |-> q] : q \in Analog2Payloads}
    \cup {[type |-> t, payload |-> NullPayload] :
             t \in {"SR_DF_END", "SR_DF_TRIGGER", "SR_DF_FRAME_BEGIN",
                    "SR_DF_FRAME_END", "other"}}

\* a driver makes a packet; every GVariant has one or two references
packet_new(packet, refs) ==
    /\ pc = "idle"
    /\ copied.pc = "none"
    /\ pkt' = [packet |-> packet, refs |-> refs]
    /\ heap' = [refs |-> refs, blocks |-> {}, wild |-> FALSE]
    /\ copied' = [NoCopy EXCEPT !.pc = "made"]
    /\ drv_log' = NoLog
    /\ UNCHANGED <<sources, pollfds, usb_source_present, abort_session,
                   running, devs, sdi_session, now, pc, loop, call, fired,
                   gone, next_id, result, stop_vars, waited, ran, feed_vars,
                   devs2>>
    /\ reaped' = {}

\* sizeof(logic) and sizeof(analog) in sr_packet_copy are the size of a
\* pointer; the structures are larger
SizeofPointer == 8
SizeofLogic == 24
SizeofAnalog == 48

\* what a store or a g_free through a pointer that was never set, or a
\* store past the end of a block, may do: end the process, or go on with
\* the heap damaged
WildStore == {"crash", "goes on"}

\* how often GVariant v is the data of an entry of a config list
Refers(config, v) ==
    Cardinality({j \in 1..Len(config) : config[j].data = v})

\* sr_packet_copy(packet, &copy) on heap h: the return code ("crash" if the
\* call does not return), the copy and the heap
sr_packet_copy(packet, h, ub) ==
    LET type == packet.type
        q == packet.payload
        \* *copy = g_malloc0(...); (*copy)->type = packet->type
        h0 == [h EXCEPT !.blocks = @ \cup {"copy"}]
        h1 == [h0 EXCEPT !.blocks = @ \cup {"copy.payload"}]
    IN CASE type \in {"SR_DF_TRIGGER", "SR_DF_END"} ->
               [ret |-> "SR_OK", heap |-> h0,
                packet |-> [type |-> type, payload |-> NullPayload]]
         [] type = "SR_DF_HEADER" ->
               [ret |-> "SR_OK", heap |-> h1,
                packet |-> [type |-> type,
                            payload |-> [q EXCEPT !.at = "copy.payload"]]]
         [] type = "SR_DF_META" ->
               \* g_slist_foreach hands copy_src meta_copy->config, which is
               \* NULL, where copy_src expects meta_copy
               IF q.config = <<>> THEN
                   [ret |-> "SR_OK", heap |-> h1,
                    packet |-> [type |-> type,
                                payload |-> [q EXCEPT !.at = "copy.payload"]]]
               ELSE IF ub = "crash" THEN
                   \* copy_src of the first entry: g_variant_ref, g_memdup,
                   \* and the store through the NULL meta_copy
                   [ret |-> "crash",
                    heap |-> [h1 EXCEPT
                                 !.refs[q.config[1].data] = @ + 1,
                                 !.blocks = @ \cup {"copy.src1"}],
                    packet |-> [type |-> type, payload |-> NullPayload]]
               ELSE
                   [ret |-> "SR_OK",
                    heap |-> [refs |-> [v \in DOMAIN h.refs |->
                                           h.refs[v] + Refers(q.config, v)],
                              blocks |-> h1.blocks \cup
                                  {IF j = 1 THEN "copy.src1" ELSE "copy.src2" :
                                      j \in 1..Len(q.config)},
                              wild |-> TRUE],
                    packet |-> [type |-> type,
                                payload |-> [q EXCEPT !.at = "copy.payload",
                                                      !.config = <<>>]]]
         [] type = "SR_DF_LOGIC" ->
               \* the block has sizeof(logic) bytes and logic_copy->data is
               \* never set before memcpy writes to it
               IF ub = "crash" THEN
                   [ret |-> "crash", heap |-> h1,
                    packet |-> [type |-> type, payload |-> NullPayload]]
               ELSE
                   [ret |-> "SR_OK",
                    heap |-> [h1 EXCEPT !.wild = TRUE],
                    packet |-> [type |-> type,
                                payload |-> [q EXCEPT
                                    !.at = "copy.payload",
                                    !.data = Buffer("wild", q.data.bytes)]]]
         [] type = "SR_DF_ANALOG" ->
               IF ub = "crash" THEN
                   [ret |-> "crash", heap |-> h1,
                    packet |-> [type |-> type, payload |-> NullPayload]]
               ELSE
                   [ret |-> "SR_OK",
                    heap |-> [h1 EXCEPT !.wild = TRUE,
                                        !.blocks = @ \cup {"copy.channels"}],
                    packet |-> [type |-> type,
                                payload |-> [q EXCEPT
                                    !.at = "copy.payload",
                                    !.channels.at = "copy.channels",
                                    !.data = Buffer("wild", q.data.bytes)]]]
         [] OTHER ->
               [ret |-> "SR_ERR", heap |-> h0,
                packet |-> [type |-> type, payload |-> NullPayload]]

\* the loop of sr_packet_free over the config list of a meta payload, from
\* entry l on: g_variant_unref and g_free of each entry
RECURSIVE free_config(_, _, _)
free_config(config, l, h) ==
    IF l > Len(config) THEN h
    ELSE free_config(config, l + 1,
             [h EXCEPT !.refs[config[l].data] = @ - 1,
                       !.blocks = @ \ {config[l].at}])

\* sr_packet_free(packet) on heap h
sr_packet_free(packet, h, ub) ==
    LET type == packet.type
        q == packet.payload
        h1 == CASE type \in {"SR_DF_TRIGGER", "SR_DF_END"} -> h
                [] type = "SR_DF_HEADER" ->
                       [h EXCEPT !.blocks = @ \ {q.at}]
                [] type = "SR_DF_META" ->
                       [free_config(q.config, 1, h) EXCEPT
                           !.blocks = @ \ {q.at}]
                [] type = "SR_DF_LOGIC" ->
                       [h EXCEPT !.blocks = @ \ {q.data.at, q.at},
                                 !.wild = @ \/ q.data.at = "wild"]
                [] type = "SR_DF_ANALOG" ->
                       [h EXCEPT !.blocks = @ \ {q.channels.at, q.data.at,
                                                 q.at},
                                 !.wild = @ \/ q.data.at = "wild"]
                [] OTHER -> h
        stray == type \in {"SR_DF_LOGIC", "SR_DF_ANALOG"}
                 /\ q.data.at = "wild"
    IN IF stray /\ ub = "crash" THEN [ret |-> "crash", heap |-> h]
       ELSE [ret |-> "SR_OK",
             heap |-> [h1 EXCEPT !.blocks = @ \ {"copy"}]]

\* the caller asks for a copy of the packet
packet_copy(ub) ==
    /\ pc = "idle"
    /\ copied.pc = "made"
    /\ LET r == sr_packet_copy(pkt.packet, heap, ub)
       IN /\ heap' = r.heap
          /\ copied' = [pc |-> IF r.ret = "crash" THEN "crashed"
                               ELSE "copied",
                        ret |-> r.ret, packet |-> r.packet]
    /\ drv_log' = NoLog
    /\ UNCHANGED <<sources, pollfds, usb_source_present, abort_session,
                   running, devs, sdi_session, now, pc, loop, call, fired,
                   gone, next_id, result, stop_vars, waited, ran, feed_vars,
                   devs2, pkt>>
    /\ reaped' = {}

\* the caller frees the copy it was given
packet_free(ub) ==
    /\ pc = "idle"
    /\ copied.pc = "copied"
    /\ copied.ret = "SR_OK"
    /\ LET r == sr_packet_free(copied.packet, heap, ub)
       IN /\ heap' = r.heap
          /\ copied' = [copied EXCEPT !.pc = IF r.ret = "crash"
                                             THEN "crashed" ELSE "freed"]
    /\ drv_log' = NoLog
    /\ UNCHANGED <<sources, pollfds, usb_source_present, abort_session,
                   running, devs, sdi_session, now, pc, loop, call, fired,
                   gone, next_id, result, stop_vars, waited, ran, feed_vars,
                   devs2, pkt>>
    /\ reaped' = {}

PacketNext ==
    \/ \E packet \in PacketInputs, refs \in [Variants -> 1..2] :
           packet_new(packet, refs)
    \/ \E ub \in WildStore : packet_copy(ub)
    \/ \E ub \in WildStore : packet_free(ub)

PacketSpec == Init /\ [][PacketNext]_vars

(***************************************************************************)
(* The stop channel: a session whose devices are started and run, with     *)
(* sr_session_stop called from a second thread, from source callbacks and  *)
(* from inside a driver's dev_acquisition_stop.                            *)
(***************************************************************************)
\* the devices of these sessions
StopDevices == {"dev1", "dev2"}
\* what g_poll may do
PollKinds == {"events", "timeout", "eintr", "fail"}
\* what becomes of the thread that locks a mutex it holds
LockOutcomes == {"deadlock", "aborted"}

StopNext ==
    \/ \E d \in StopDevices : sr_session_dev_add(d, TRUE, TRUE, FALSE)
    \/ \E n \in 0..Cardinality(StopDevices), f \in BOOLEAN :
           sr_session_start(n, f)
    \/ \E t \in PollfdTimeouts : sr_session_source_add(3, t, FALSE)
    \/ \E p \in PollfdArgs, t \in PollfdTimeouts :
           sr_session_source_add_pollfd(p, t, FALSE)
    \/ sr_session_run
    \/ run_return
    \/ \E st \in Times, kind \in PollKinds,
          rv \in [1..Len(pollfds) -> Revents] :
           iteration_poll([ret |-> 0, usec |-> 0], st, kind, rv)
    \/ dispatch_source
    \/ \E keep \in BOOLEAN : callback_return(keep)
    \/ dispatch_end
    \/ sr_session_stop
    \/ stop_thread_lock
    \/ stop_thread_set
    \/ \E r \in BOOLEAN, o \in LockOutcomes : stop_sync_dev(r, o)
    \/ stop_sync_return

StopSpec == Init /\ [][StopNext]_vars

(***************************************************************************)
(* The same session when all goes well: the registry holds only what the   *)
(* drivers registered, g_poll does not fail, the callbacks of the periodic *)
(* timers return TRUE, no driver calls sr_session_stop, and the threads    *)
(* keep running.                                                           *)
(***************************************************************************)
\* a step of the thread that runs the loop
LoopStep ==
    \/ run_return
    \/ \E st \in Times, kind \in {"timeout", "eintr"} :
           iteration_poll([ret |-> 0, usec |-> 0], st, kind, <<>>)
    \/ dispatch_source
    \/ callback_return(TRUE)
    \/ dispatch_end
    \/ stop_sync_dev(FALSE, "deadlock")
    \/ stop_sync_return

LiveNext ==
    \/ \E d \in StopDevices : sr_session_dev_add(d, TRUE, TRUE, FALSE)
    \/ \E n \in 1..Cardinality(StopDevices) : sr_session_start(n, FALSE)
    \/ sr_session_run
    \/ stop_thread_lock
    \/ stop_thread_set
    \/ LoopStep

\* the loop thread is scheduled, g_poll returns and callbacks return; the
\* second thread leaves sr_session_stop
LiveSpec ==
    /\ Init
    /\ [][LiveNext]_vars
    /\ WF_vars(LoopStep)
    /\ WF_vars(stop_thread_set)

(***************************************************************************)
(* Properties.                                                             *)
(***************************************************************************)
\* C1: the poll-descriptor array is as long as the sum of num_fds over the
\* registry, and the descriptors of the source at position i are exactly the
\* num_fds entries that start at the sum of num_fds of the sources before it.
PollfdsInLockstep ==
    /\ Len(pollfds) = SumFds(sources, Len(sources))
    /\ \A i \in 1..Len(sources) :
           {j \in 1..Len(pollfds) : pollfds[j].owner = sources[i].id}
               = {SumFds(sources, i - 1) + k : k \in 1..sources[i].num_fds}

\* a callback has added a source after an earlier removal, next to a source
\* with two descriptors
PollfdsInLockstepWitness ==
    /\ pc = "cb"
    /\ result = "SR_OK"
    /\ next_id = 4
    /\ Len(sources) = 2
    /\ sources[1].num_fds = 2
    /\ sources[2].num_fds = 1

\* C2: a callback is invoked only with its source's triggered flag set, and
\* no registry entry is invoked twice in one iteration.
OncePerIteration ==
    pc = "cb" => call.triggered /\ ~call.again

\* the third callback of one iteration is running
OncePerIterationWitness ==
    /\ pc = "cb"
    /\ Cardinality(fired) = 3

\* C3: an entry whose callback returned FALSE is in the registry no more,
\* owns no descriptor, and is never invoked again.
GoneIsGone ==
    /\ \A i \in 1..Len(sources) : sources[i].id \notin gone
    /\ \A j \in 1..Len(pollfds) : pollfds[j].owner \notin gone
    /\ pc = "cb" => call.id \notin gone

\* a callback runs after an earlier callback of the same iteration returned
\* FALSE
GoneIsGoneWitness ==
    /\ pc = "cb"
    /\ gone \cap fired # {}
    /\ call.num_fds > 0

\* C4: a source without a timeout is invoked only in an iteration in which
\* g_poll reported an event on one of its own descriptors.
NoTimeoutNeedsOwnEvent ==
    pc = "cb" /\ call.timeout < 0 => call.ret > 0 /\ call.own_revents # 0

\* C5: when g_poll reported events, a source none of whose own descriptors
\* has one is not invoked.
EventsPreemptOthers ==
    pc = "cb" /\ call.ret > 0 => call.own_revents # 0

\* whether a registry entry is ready in the iteration in progress: an event
\* on one of its own descriptors, or its deadline reached when g_poll timed
\* out or was interrupted
EffectiveDue(src) ==
    IF loop.usb_due < src.due /\ src.poll_object = LibusbCtx
    THEN loop.usb_due ELSE src.due

Ready(src) ==
    LET own == OwnFds(pollfds, src.id)
    IN IF loop.ret > 0 THEN OrAll(own, Len(own)) # 0
       ELSE loop.stop_time >= EffectiveDue(src)

\* C6: the pass goes on from the first entry after each callback, so that
\* when the pass ends no entry is left that is ready and was not invoked.
EveryReadySourceDispatched ==
    pc = "dispatch" /\ loop.i >= Len(sources)
        => \A j \in 1..Len(sources) :
               ~(~sources[j].triggered /\ Ready(sources[j]))

\* C7: a callback is given the OR of the revents of its own descriptors (0
\* when g_poll timed out or was interrupted), and the fd of its own single
\* descriptor, or -1 when it has several.
CallbackGetsOwnEvents ==
    pc = "cb" =>
        /\ call.revents = IF call.ret <= 0 THEN 0 ELSE call.own_revents
        /\ call.num_fds = 1 => call.fd = call.own_fd
        /\ call.num_fds > 1 => call.fd = -1

\* C8: no two registered sources have the same poll_object, and in every
\* state an add of a poll_object that is registered, whatever its other
\* arguments, fails and changes nothing (a poll_object whose source was
\* removed is not registered and can be added again).
UniquePollObjects ==
    /\ \A i, j \in 1..Len(sources) :
           sources[i].poll_object = sources[j].poll_object => i = j
    /\ \A k \in KeysOf(sources), nf \in 0..Len(UsbFds), t \in Timeouts,
          a \in {NullFds, FdArray(UsbFds)}, n \in BOOLEAN :
           LET r == source_add_internal(sources, pollfds, a, nf, t, n, k,
                                        next_id, now)
           IN /\ r.ret \in {"SR_ERR", "SR_ERR_ARG"}
              /\ r.sources = sources
              /\ r.pollfds = pollfds

\* the callback of the first entry removed its own source and added a
\* second under the same poll_object; now its add of that poll_object has
\* failed
UniquePollObjectsWitness ==
    /\ pc = "cb"
    /\ result = "SR_ERR"
    /\ call.id = 1
    /\ \E i \in 1..Len(sources) :
           sources[i].id = 2 /\ sources[i].poll_object = call.poll_object

NoTimerWithoutTimeout ==
    \A i \in 1..Len(sources) :
        ~(sources[i].num_fds = 0 /\ sources[i].timeout < 0)

\* the sr_session_stop_sync executions begun so far
SyncsBegun == stop_syncs + (IF sync = NoSync THEN 0 ELSE 1)

\* C11: with sr_session_stop called from a second thread at any point of the
\* loop, the loop never begins more sr_session_stop_sync executions than
\* sr_session_stop calls were made; sr_session_stop_sync runs on the thread of
\* the loop with the stop mutex held by it and the flag still set; and the
\* flag is cleared before the mutex is released, so a flag found set outside
\* the critical section belongs to a call no sr_session_stop_sync has
\* answered.
StopAtMostOncePerRequest ==
    /\ SyncsBegun <= stop_calls
    /\ sync # NoSync =>
           /\ stop_mutex = "loop"
           /\ abort_session
           /\ pc \in {"stop_sync"} \cup LockOutcomes
    /\ abort_session /\ stop_mutex # "loop" => stop_syncs < stop_calls

\* two calls of the second thread were answered by one sr_session_stop_sync,
\* made after a callback, and the loop goes on
StopAtMostOncePerRequestWitness ==
    /\ stop_calls = 2
    /\ stop_syncs = 1
    /\ ~abort_session
    /\ stop_mutex = "free"
    /\ other_pc = "idle"
    /\ pc = "dispatch"
    /\ loop.stopped
    /\ acq_stops["dev1"] = 1

\* C12: in an iteration the flag is consulted after every callback (so
\* between callbacks there were as many sr_session_check_aborted calls as
\* callbacks, and while a callback runs one less), and a stop within the
\* iteration means that sr_session_stop_sync has run.
StopFlagConsultedAfterEveryCallback ==
    /\ pc = "dispatch" => checks = Cardinality(fired)
    /\ pc = "cb" => checks = Cardinality(fired) - 1
    /\ pc \in {"dispatch", "cb"} /\ loop.stopped => stop_syncs > 0

\* the second thread is in its first sr_session_stop while sr_session_run is
\* looping over a registry that holds a driver's periodic timer
StopRequestedWhileRunning ==
    /\ other_pc = "locked"
    /\ stop_calls = 1
    /\ pc # "idle"
    /\ DriverKey("dev1") \in KeysOf(sources)

\* sr_session_run has returned SR_OK after one sr_session_stop_sync
RunStopped ==
    /\ pc = "idle"
    /\ result = "SR_OK"
    /\ ~running
    /\ stop_syncs = 1
    /\ \A j \in 1..Len(devs) :
           acq_stops[devs[j]] = IF HasDriver(devs[j]) /\ HasAcqStop(devs[j])
                                THEN 1 ELSE 0

\* C13: a stop requested from a second thread while sr_session_run loops over
\* a registry with a periodic timer, with drivers that remove their sources
\* when stopped, leads to: sr_session_stop_sync executed once, every device
\* that has a dev_acquisition_stop stopped once, running FALSE and
\* sr_session_run returned SR_OK; and the loop never goes into g_poll a
\* second time with the request unanswered, so the stop is made no later
\* than in the iteration in which the timer next comes due.
StopLeadsToReturn ==
    /\ StopRequestedWhileRunning ~> RunStopped
    /\ [](waited <= 1)

\* sr_session_run has returned after such a stop of a session of two
\* devices, one of them without a dev_acquisition_stop
StopLeadsToReturnWitness ==
    /\ RunStopped
    /\ Len(devs) = 2
    /\ stop_calls = 1
    /\ ~abort_session
    /\ now > 0

\* C14: sr_session_stop, whichever thread calls it and from wherever (a
\* source callback, a subscriber, a dev_acquisition_stop that
\* sr_session_stop_sync invoked), sets the flag with the stop mutex held and
\* returns: no thread is ever left blocked on the stop mutex.
StopNeverBlocks ==
    /\ pc \notin LockOutcomes
    /\ other_pc = "locked" => stop_mutex = "other"

\* C15: every read and every write of abort_session and of running, by
\* whichever session operation, is made with the stop mutex held: none is
\* ever made without it.
FlagsOnlyUnderMutex ==
    /\ bare = {}
    /\ other_pc = "locked" => stop_mutex = "other"
    /\ sync # NoSync => stop_mutex = "loop"

\* C16: running is TRUE exactly when sr_session_start has been called and no
\* sr_session_stop_sync has completed since.
RunningIffStarted == running <=> started

\* C17: sr_session_run returns SR_OK only with the registry empty, and
\* returns an error only when an iteration reported a failure (g_poll failed
\* other than by EINTR, or the USB timeout query failed); the devices are then
\* still enrolled.
RunReturnContract ==
    /\ ran.ret = "SR_OK" => Len(sources) = 0
    /\ ran.ret \notin {"none", "SR_OK"} =>
           /\ ran.failed
           /\ devs # <<>>
           /\ \A j \in 1..Len(devs) : sdi_session[devs[j]] = "session"

\* C18: sr_session_run on a session to which nothing was added since it was
\* created returns SR_OK and calls g_poll not once.
FreshRunReturnsOk ==
    ran.ret # "none" /\ next_id = 1 /\ devs = <<>> /\ sources = <<>>
        => ran.ret = "SR_OK" /\ ~ran.polled


(***************************************************************************)
(* The datafeed bus, stated apart from the loops of sr_session_send.       *)
(***************************************************************************)
\* the packet that leaves the first j modules of the chain
RECURSIVE Through(_, _, _)
Through(chain, j, packet) ==
    IF j = 0 THEN packet
    ELSE receive(chain[j], Through(chain, j - 1, packet)).out

\* module j of the chain fails on, or swallows, what the modules before it
\* made of the packet
Halts(chain, j, packet) ==
    LET r == receive(chain[j], Through(chain, j - 1, packet))
    IN r.ret < 0 \/ r.out = NullPacket

\* the first module of the chain that ends the send of the packet, 0 if the
\* packet survives the whole chain
StopAt(chain, packet) ==
    LET H == {j \in 1..Len(chain) : Halts(chain, j, packet)}
    IN IF H = {} THEN 0 ELSE CHOOSE j \in H : \A k \in H : j <= k

\* a send that got past the argument checks
Accepted(r) == r.ret \notin {"SR_ERR_ARG", "SR_ERR_BUG"}

\* the packets of the first n sends that subscriber c is owed
RECURSIVE Owed(_, _)
Owed(c, n) ==
    IF n = 0 THEN <<>>
    ELSE LET r == sends[n]
         IN IF /\ Accepted(r)
               /\ StopAt(r.chain, r.packet) = 0
               /\ \E j \in 1..Len(r.subs) : r.subs[j] = c
            THEN Append(Owed(c, n - 1),
                        Through(r.chain, Len(r.chain), r.packet))
            ELSE Owed(c, n - 1)

\* C19: every send gives the packet to the transforms in list order, each
\* receiving what the one before it returned, and then to the subscribers
\* in registration order; a transform that returns a negative status makes
\* the send fail and one that returns no packet makes it return SR_OK, and
\* in both cases no later transform and no subscriber is called; so each
\* subscriber has seen exactly the packets that survived the whole chain,
\* in send order and once each.
SendDeliversSurvivors ==
    /\ \A n \in 1..Len(sends) :
           LET r == sends[n]
               k == StopAt(r.chain, r.packet)
               last == IF k = 0 THEN Len(r.chain) ELSE k
           IN Accepted(r) =>
                  /\ r.t_log = [j \in 1..last |->
                                   [t |-> r.chain[j],
                                    in |-> Through(r.chain, j - 1, r.packet)]]
                  /\ k # 0 =>
                         /\ r.cb_log = <<>>
                         /\ r.ret =
                                IF receive(r.chain[k],
                                       Through(r.chain, k - 1, r.packet)).ret
                                   < 0
                                THEN "SR_ERR" ELSE "SR_OK"
                  /\ k = 0 =>
                         /\ r.ret = "SR_OK"
                         /\ r.cb_log = [j \in 1..Len(r.subs) |->
                                [cb |-> r.subs[j],
                                 packet |-> Through(r.chain, Len(r.chain),
                                                    r.packet)]]
    /\ \A c \in 1..Len(seen) : seen[c] = Owed(c, Len(sends))

\* three sends through a chain of two modules to two subscribers: one
\* packet failed, one was swallowed by the second module, one was changed by
\* the chain and delivered
SendDeliversSurvivorsWitness ==
    /\ Len(sends) = 3
    /\ \E n \in 1..3 : sends[n].ret = "SR_ERR" /\ sends[n].cb_log = <<>>
    /\ \E n \in 1..3 : /\ sends[n].ret = "SR_OK"
                       /\ Len(sends[n].t_log) = 2
                       /\ sends[n].cb_log = <<>>
                       /\ Len(sends[n].subs) = 2
    /\ \E n \in 1..3 : /\ sends[n].ret = "SR_OK"
                       /\ Len(sends[n].t_log) = 2
                       /\ Len(sends[n].cb_log) = 2
                       /\ sends[n].cb_log[1].packet # sends[n].packet
    /\ Len(seen) = 2
    /\ seen[1] # <<>>
    /\ seen[2] # <<>>


(***************************************************************************)
(* The rosters and the back-references.                                    *)
(***************************************************************************)
\* how often device d is in a roster
Count(roster, d) == Cardinality({j \in 1..Len(roster) : roster[j] = d})

\* the roster and the running flag of a session; session2 is never run
RosterOf(s) == IF s = "session" THEN devs ELSE devs2
RunningOf(s) == IF s = "session" THEN running ELSE FALSE

\* C20: every device is in at most one roster and there at most once, and
\* its sdi->session is S exactly when it is in the roster of S; adding a
\* device that is bound to a session, or a real device without dev_open,
\* fails and leaves the roster and the back-references as they were; and
\* sr_session_dev_remove_all empties the roster and clears the
\* back-reference of just the devices that were in it.
DeviceInOneRoster ==
    /\ \A d \in AllDevices :
           /\ Count(devs, d) + Count(devs2, d) <= 1
           /\ \A s \in Sessions :
                  sdi_session[d] = s <=> Count(RosterOf(s), d) = 1
    /\ \A s \in Sessions, d \in AllDevices, c, st \in BOOLEAN :
           LET r == dev_add(RosterOf(s), sdi_session, s, d, RunningOf(s),
                            c, st)
           IN sdi_session[d] # "NULL" \/ (HasDriver(d) /\ ~HasDevOpen(d)) =>
                  /\ r.ret # "SR_OK"
                  /\ r.devs = RosterOf(s)
                  /\ r.session = sdi_session
    /\ \A s \in Sessions :
           LET r == dev_remove_all(RosterOf(s), sdi_session)
           IN /\ r.devs = <<>>
              /\ \A d \in AllDevices :
                     r.session[d] = IF Count(RosterOf(s), d) > 0 THEN "NULL"
                                    ELSE sdi_session[d]

\* the session was run with devices and its roster emptied afterwards, two
\* devices (the virtual one among them) are now in session2, and the last
\* call was the refused add of the device without dev_open
DeviceInOneRosterWitness ==
    /\ running
    /\ devs = <<>>
    /\ Len(devs2) = 2
    /\ sdi_session["virt"] = "session2"
    /\ sdi_session["noopen"] = "NULL"
    /\ result = "SR_ERR_BUG"


(***************************************************************************)
(* Devices added to a running session, and the start of a session.         *)
(***************************************************************************)
\* the last call was a sr_session_dev_add that enrolled a real device
AddedRealDevice ==
    /\ drv_log.op = "dev_add"
    /\ HasDriver(drv_log.dev)
    /\ drv_log.ret \notin {"SR_ERR_ARG", "SR_ERR_BUG"}

\* C21: a real device added while running is TRUE is enrolled, then its
\* configuration is committed and, only if the commit succeeded, its
\* dev_acquisition_start is called; if either fails the error is returned
\* and the device stays enrolled with its back-reference; with running
\* FALSE neither is called.
AddWhileRunningStarts ==
    AddedRealDevice =>
        LET d == drv_log.dev
            c == drv_log.calls
        IN /\ Count(RosterOf(drv_log.session), d) = 1
           /\ sdi_session[d] = drv_log.session
           /\ ~drv_log.run => c = <<>> /\ drv_log.ret = "SR_OK"
           /\ drv_log.run =>
                  /\ Len(c) >= 1
                  /\ c[1].op = "sr_config_commit" /\ c[1].dev = d
                  /\ ~c[1].ok => Len(c) = 1 /\ drv_log.ret # "SR_OK"
                  /\ c[1].ok =>
                         /\ Len(c) = 2
                         /\ c[2].op = "dev_acquisition_start" /\ c[2].dev = d
                         /\ drv_log.ret = "SR_OK" <=> c[2].ok

\* a real device was added to the running session, its commit went well
\* and its dev_acquisition_start failed: the error was returned and the
\* device is in the roster, after one that was added before the run
AddWhileRunningStartsWitness ==
    /\ AddedRealDevice
    /\ drv_log.run
    /\ Len(drv_log.calls) = 2
    /\ ~drv_log.calls[2].ok
    /\ result = "SR_ERR"
    /\ Len(devs) = 2
    /\ devs[2] = drv_log.dev

\* the steps sr_session_start makes for one device, in order
StartSteps == <<"enabled_channels", "sr_config_commit",
                "dev_acquisition_start">>

\* C22: sr_session_start on an empty roster fails and touches no device;
\* otherwise it takes the devices in roster order and for each looks for an
\* enabled channel, commits the configuration and calls
\* dev_acquisition_start; at the first step that fails it returns the error,
\* makes no further step, and stops or takes out no device it has started;
\* when every step succeeds each device was started once and it returns
\* SR_OK.
StartStopsAtFirstFailure ==
    drv_log.op = "start" =>
        LET c == drv_log.calls
        IN /\ devs = <<>> => c = <<>> /\ drv_log.ret = "SR_ERR_ARG"
           /\ Len(c) <= 3 * Len(devs)
           /\ \A j \in 1..Len(c) :
                  /\ c[j].dev = devs[((j - 1) \div 3) + 1]
                  /\ c[j].op = StartSteps[((j - 1) % 3) + 1]
                  /\ j < Len(c) => c[j].ok
                  /\ c[j].op = "dev_acquisition_start" /\ c[j].ok =>
                         /\ acq_stops[c[j].dev] = 0
                         /\ sdi_session[c[j].dev] = "session"
                         /\ DriverKey(c[j].dev) # 0 =>
                                DriverKey(c[j].dev) \in KeysOf(sources)
           /\ drv_log.ret # "crash"
           /\ (\E j \in 1..Len(c) : ~c[j].ok) => drv_log.ret # "SR_OK"
           /\ drv_log.ret = "SR_OK" =>
                  /\ Len(c) = 3 * Len(devs)
                  /\ \A j \in 1..Len(c) : c[j].ok
           /\ (devs # <<>> /\ Len(c) = 3 * Len(devs)
               /\ \A j \in 1..Len(c) : c[j].ok) => drv_log.ret = "SR_OK"

(***************************************************************************)
(* The copy of a packet.                                                   *)
(***************************************************************************)
\* the blocks a payload consists of
BlocksOf(q) ==
    CASE q.kind = "NULL" -> {}
      [] q.kind = "meta" -> {q.at} \cup {q.config[j].at :
                                            j \in 1..Len(q.config)}
      [] q.kind = "logic" -> {q.at, q.data.at}
      [] q.kind = "analog" -> {q.at, q.data.at, q.channels.at}
      [] OTHER -> {q.at}

\* what a payload says, wherever it is stored
ContentOf(q) ==
    CASE q.kind = "NULL" -> <<>>
      [] q.kind = "header" -> <<q.feed_version>>
      [] q.kind = "meta" -> [j \in 1..Len(q.config) |->
                                <<q.config[j].key, q.config[j].data>>]
      [] q.kind = "logic" -> <<q.length, q.unitsize, q.data.bytes>>
      [] q.kind = "analog" -> <<q.channels.list, q.num_samples, q.mq, q.unit,
                                q.mqflags, q.data.bytes>>
      [] OTHER -> <<q.num_samples>>

\* C23: after sr_packet_copy and sr_packet_free of the copy every GVariant
\* has the reference count it had before the copy, every block the copy
\* allocated is freed, and nothing else was written or freed; this for
\* every packet, a meta packet with a non-empty config list among them.
CopyFreeRoundTrip ==
    /\ copied.pc # "crashed"
    /\ copied.pc = "freed" =>
           /\ heap.refs = pkt.refs
           /\ heap.blocks = {}
           /\ ~heap.wild

\* C24: sr_packet_copy returns SR_OK for every packet type of the enum,
\* with a copy of the same type whose payload has the content of the
\* original in blocks of its own, and fails only for a type that is not of
\* the enum.
CopyIsTotal ==
    copied.pc \in {"copied", "crashed"} /\ copied.ret # "none" =>
        /\ pkt.packet.type \in KnownTypes =>
               /\ copied.ret = "SR_OK"
               /\ copied.packet.type = pkt.packet.type
               /\ ContentOf(copied.packet.payload)
                      = ContentOf(pkt.packet.payload)
               /\ BlocksOf(copied.packet.payload)
                      \cap BlocksOf(pkt.packet.payload) = {}
               /\ BlocksOf(copied.packet.payload) \subseteq heap.blocks
        /\ copied.ret # "SR_OK" => pkt.packet.type \notin KnownTypes

(***************************************************************************)
(* Deadlines.                                                              *)
(***************************************************************************)
\* C25: a source none of whose own descriptors has an event is invoked only
\* when the time taken after g_poll has reached the deadline the test used
\* for it (its due, or the earlier deadline of the USB hint for the source
\* of the USB backend); and a source with a timeout that is invoked has its
\* due set to that time plus its timeout.
FiresOnlyWhenDue ==
    pc = "cb" =>
        /\ (call.ret <= 0 \/ call.own_revents = 0) =>
               loop.stop_time >= call.due
        /\ call.timeout >= 0 =>
               call.due_set = loop.stop_time + call.timeout

\* C26: the dispatch loop removes, after a callback that returned FALSE, no
\* entry but the one whose callback it was: what the callback registered
\* during the call, be it under the poll_object of its own source after it
\* removed that, stays registered.
OnlyOwnEntryReaped == reaped \subseteq gone

\* C27: whenever sr_session_run returns, abort_session is clear; and no
\* sr_session_stop_sync is executed in a call of sr_session_run for a
\* sr_session_stop made before that call began (while no loop was running, or
\* after the registry of an earlier call had drained).
StopFlagClearAtReturn ==
    /\ ran.ret # "none" => ~abort_session
    /\ sync # NoSync => ~ran.stale

====
